---- MODULE Spec2Model ----
(***************************************************************************)
(* Model of the market-data collectors of MakeDB:                          *)
(*   - the plugin-socket (newline-delimited JSON) collector,               *)
(*     src/rtrader_collector.py  (variant "text"),                         *)
(*   - the binary-protocol collector,                                      *)
(*     src/rithmic_binary_collector.py  (variant "binary").                *)
(* Strings of the program are sequences of one-character strings, so that  *)
(* split(':'), rstrip(digits) and startswith are computed, not assumed.    *)
(***************************************************************************)
EXTENDS Integers, Sequences, FiniteSets, TLC

\* ------------------------------------------------------------ bounds
\* Total number of requests the producers push onto the control queue.
MaxPush == 2
\* Number of frames (binary) and of lines (text) the terminal sends.
MaxFrames == 2
MaxLines == 2
\* Number of places where a text stream is cut into separate recv results.
MaxCuts == 1
\* Largest number of price levels on one side of a depth update.
MaxLevels == 15
\* Number of records handed to the store handlers.
MaxCalls == 2
\* Number of recv calls of the listener that end in socket.timeout.
MaxTimeouts == 1

\* ------------------------------------------------------------ state
VARIABLES
    variant,             \* which collector program is running
    pc,                  \* position of run(): start, connect, subscribe,
                         \*   poll, sleep, done
    retry_count,         \* RithmicCollector.run: retry_count
    attempts,            \* number of connect() calls made so far
    succeededAt,         \* the attempt that succeeded (0: none yet)
    idx,                 \* index of the next initial symbol to subscribe
    connected,           \* client.connected / protocol.connected
    sockUp,              \* the TCP connection to the terminal is alive
    listening,           \* the read loop (listener thread / task) is alive
    listenStarted,       \* the read loop was started at some point
    symbols,             \* self.symbols
    subscribed_symbols,  \* RTraderProDataCollector.subscribed_symbols
    queue,               \* Redis list 'symbol_subscriptions'
    wire,                \* subscribe frames written to the socket, in order
    delivered,           \* requests popped so far: [req, up, sent]
    pushes,              \* number of requests pushed so far
    exit,                \* how run() ended: none, returned, raised,
                         \*   interrupted
    \* ---- the read path
    stream,              \* binary: bytes the socket will still deliver
    chunks,              \* text: results of the coming recv(4096) calls
    sent,                \* everything the terminal put on the connection
    rxEnd,               \* after them: open (blocks), eof, error
    sink,                \* database: ok, reject (statement fails, rollback
                         \*   works), lost (connection gone: rollback raises)
    tick_data,           \* committed rows of table tick_data
    level2_data,         \* committed rows of table level2_data
    handled,             \* log of the frames taken off the connection
    killedBy,            \* why the read loop ended: none, eof, error,
                         \*   decode, parse, persist
    \* ---- the write path
    inWrite,             \* the activities inside send_message right now
    pending,             \* the frame the poll is writing (<<>>: none)
    \* ---- the listener thread of the text client
    remaining,           \* _listen: lines of the last recv not yet handled
    callbacks,           \* RTraderProPlugin.callbacks (the keys)
    timeouts,            \* recv calls that ended in socket.timeout
    \* ---- the other Redis list
    new_symbols          \* Redis list 'new_symbols' (popped by collector.py)

runVars ==
    <<variant, pc, retry_count, attempts, succeededAt, idx, connected,
      sockUp, listening, listenStarted, symbols, subscribed_symbols, queue,
      wire, delivered, pushes, exit>>

readVars ==
    <<stream, chunks, sent, rxEnd, sink, tick_data, level2_data, handled,
      killedBy>>

writeVars == <<inWrite, pending>>

threadVars == <<remaining, callbacks, timeouts>>

vars == <<runVars, readVars, writeVars, threadVars, new_symbols>>

\* ------------------------------------------------------------ strings
GCQ5 == <<"G", "C", "Q", "5">>
NQU5 == <<"N", "Q", "U", "5">>
ESU5 == <<"E", "S", "U", "5">>
CME == <<"C", "M", "E">>
COMEX == <<"C", "O", "M", "E", "X">>
NYMEX == <<"N", "Y", "M", "E", "X">>
CBOT == <<"C", "B", "O", "T">>
Colon == <<":">>
\* The value of a JSON key that is not present in the request.
Absent == <<"<absent>">>

Digits == {"0", "1", "2", "3", "4", "5", "6", "7", "8", "9"}

\* str.startswith
StartsWith(s, prefix) ==
    /\ Len(prefix) <= Len(s)
    /\ SubSeq(s, 1, Len(prefix)) = prefix

\* str.rstrip('0123456789')
RECURSIVE RStripDigits(_)
RStripDigits(s) ==
    IF Len(s) > 0 /\ s[Len(s)] \in Digits
    THEN RStripDigits(SubSeq(s, 1, Len(s) - 1))
    ELSE s

\* Root prefix -> exchange, in the dict's insertion order.
SYMBOL_EXCHANGE_MAP ==
    << <<<<"G", "C">>, COMEX>>, <<<<"M", "G", "C">>, COMEX>>,
       <<<<"G", "L", "D">>, COMEX>>,
       <<<<"C", "L">>, NYMEX>>, <<<<"N", "G">>, NYMEX>>,
       <<<<"R", "B">>, NYMEX>>, <<<<"H", "O">>, NYMEX>>,
       <<<<"E", "S">>, CME>>, <<<<"N", "Q">>, CME>>,
       <<<<"Y", "M">>, CBOT>>, <<<<"R", "T", "Y">>, CME>>,
       <<<<"6", "A">>, CME>>, <<<<"6", "B">>, CME>>, <<<<"6", "C">>, CME>>,
       <<<<"6", "E">>, CME>>, <<<<"6", "J">>, CME>>, <<<<"6", "S">>, CME>>,
       <<<<"Z", "C">>, CBOT>>, <<<<"Z", "S">>, CBOT>>, <<<<"Z", "W">>, CBOT>>,
       <<<<"Z", "L">>, CBOT>>, <<<<"Z", "M">>, CBOT>>,
       <<<<"S", "I">>, COMEX>>, <<<<"H", "G">>, COMEX>>,
       <<<<"P", "A">>, NYMEX>>, <<<<"P", "L">>, NYMEX>> >>

\* A resolver that looks for the table key anywhere in the symbol.
get_exchange_by_substring(symbol) ==
    LET base == RStripDigits(symbol)
        hits == {i \in 1..Len(SYMBOL_EXCHANGE_MAP) :
                    \E k \in 0..Len(base) :
                        StartsWith(SubSeq(base, k + 1, Len(base)),
                                   SYMBOL_EXCHANGE_MAP[i][1])}
    IN IF hits = {} THEN CME
       ELSE SYMBOL_EXCHANGE_MAP[CHOOSE i \in hits : \A j \in hits : i <= j][2]

\* RithmicCollector.get_exchange_for_symbol: the first table prefix the
\* digit-stripped symbol starts with, else the default 'CME'.
get_exchange_for_symbol(symbol) ==
    LET base == RStripDigits(symbol)
        hits == {i \in 1..Len(SYMBOL_EXCHANGE_MAP) :
                    StartsWith(base, SYMBOL_EXCHANGE_MAP[i][1])}
    IN IF hits = {} THEN CME
       ELSE SYMBOL_EXCHANGE_MAP[CHOOSE i \in hits : \A j \in hits : i <= j][2]

\* ':' in symbol
HasColon(tok) == \E i \in 1..Len(tok) : tok[i] = ":"

\* sym, exchange = symbol.split(':')   (tokens with exactly one colon)
SplitColon(tok) ==
    LET i == CHOOSE k \in 1..Len(tok) : tok[k] = ":"
    IN <<SubSeq(tok, 1, i - 1), SubSeq(tok, i + 1, Len(tok))>>

\* f"{symbol}:{exchange}"
full_symbol(symbol, exchange) == symbol \o Colon \o exchange

\* ------------------------------------------------------------ binary codec
\* Python's None (a missing dict key read with .get, an SQL NULL).
Null == -1
\* A decoded double whose bit pattern is not in the table below.
OtherFloat == -2

Min(a, b) == IF a < b THEN a ELSE b

\* data[a:b] of a Python bytes or str value (0-based, clipped to the value).
Slice(s, a, b) == SubSeq(s, a + 1, Min(b, Len(s)))

\* struct.pack('>I', n) and struct.pack('>H', n)
pack_I(n) ==
    <<(n \div 16777216) % 256, (n \div 65536) % 256, (n \div 256) % 256,
      n % 256>>
pack_H(n) == <<(n \div 256) % 256, n % 256>>

\* struct.unpack('>I', bs)[0].  A top byte above 64 is read as 64: the value
\* is then at least 2^30, longer than any buffer, which is all that is used.
unpack_I(bs) ==
    Min(bs[1], 64) * 16777216 + bs[2] * 65536 + bs[3] * 256 + bs[4]
unpack_H(bs) == bs[1] * 256 + bs[2]

\* struct.pack('>d', x) for the prices used, x in hundredths.
pack_d(x) ==
    CASE x = 450025 -> <<64, 177, 148, 64, 0, 0, 0, 0>>
      [] x = 195010 -> <<64, 158, 120, 102, 102, 102, 102, 102>>
      [] x = 195000 -> <<64, 158, 120, 0, 0, 0, 0, 0>>
      [] OTHER -> <<0, 0, 0, 0, 0, 0, 0, 0>>

\* A decoder that keeps the whole units of a price only.
unpack_d_whole(bs) ==
    CASE bs = <<64, 177, 148, 64, 0, 0, 0, 0>> -> 450000
      [] bs = <<64, 158, 120, 102, 102, 102, 102, 102>> -> 195000
      [] bs = <<64, 158, 120, 0, 0, 0, 0, 0>> -> 195000
      [] bs = <<0, 0, 0, 0, 0, 0, 0, 0>> -> 0
      [] OTHER -> OtherFloat

\* struct.unpack('>d', bs)[0], in hundredths; never fails on 8 bytes.
unpack_d(bs) ==
    CASE bs = <<64, 177, 148, 64, 0, 0, 0, 0>> -> 450025
      [] bs = <<64, 158, 120, 102, 102, 102, 102, 102>> -> 195010
      [] bs = <<64, 158, 120, 0, 0, 0, 0, 0>> -> 195000
      [] bs = <<0, 0, 0, 0, 0, 0, 0, 0>> -> 0
      [] OTHER -> OtherFloat

\* struct.pack('>Q', n) for n < 2^24, and struct.unpack('>Q', bs)[0] read
\* as 2^24 when it is larger.
pack_Q(n) ==
    <<0, 0, 0, 0, 0, (n \div 65536) % 256, (n \div 256) % 256, n % 256>>
unpack_Q(bs) ==
    IF \A i \in 1..5 : bs[i] = 0
    THEN bs[6] * 65536 + bs[7] * 256 + bs[8]
    ELSE 16777216

\* datetime.fromtimestamp(ms / 1000.0) raises for a year after 9999
\* (ms >= 253402300800000, i.e. about 230.5 * 2^40).
TimestampOutOfRange(bs) == bs[1] # 0 \/ bs[2] # 0 \/ bs[3] > 230

\* bytes.decode('utf-8') of ASCII bytes; a byte >= 128 on its own raises.
Chr(b) ==
    CASE b = 69 -> "E" [] b = 83 -> "S" [] b = 85 -> "U" [] b = 53 -> "5"
      [] b = 71 -> "G" [] b = 67 -> "C" [] b = 81 -> "Q" [] OTHER -> "?"
Ord(c) ==
    CASE c = "E" -> 69 [] c = "S" -> 83 [] c = "U" -> 85 [] c = "5" -> 53
      [] c = "G" -> 71 [] c = "C" -> 67 [] c = "Q" -> 81 [] OTHER -> 63
DecodeFails(bs) == \E i \in 1..Len(bs) : bs[i] >= 128
Decode(bs) == [i \in 1..Len(bs) |-> Chr(bs[i])]
Encode(str) == [i \in 1..Len(str) |-> Ord(str[i])]

\* A header whose length field counts the payload only.
EncodeFrameLengthOfData(msg_type, data) ==
    pack_I(Len(data)) \o pack_H(msg_type) \o data

\* RithmicBinaryProtocol.send_message: header = pack('>IH', len(data)+2, type)
EncodeFrame(msg_type, data) == pack_I(Len(data) + 2) \o pack_H(msg_type) \o data

\* RithmicBinaryProtocol.receive_message on the bytes the reader can still
\* deliver: readexactly(4), readexactly(2), readexactly(msg_length - 2).
\* "frame": a frame and the bytes left; "incomplete": a readexactly could not
\* be satisfied from buf.
receive_message(buf) ==
    IF Len(buf) < 4 THEN [status |-> "incomplete"]
    ELSE LET msg_length == unpack_I(Slice(buf, 0, 4))
             data_length == msg_length - 2
         IN IF Len(buf) < 6 THEN [status |-> "incomplete"]
            ELSE IF data_length > 0 /\ Len(buf) < 6 + data_length
            THEN [status |-> "incomplete"]
            ELSE [status |-> "frame",
                  msg_type |-> unpack_H(Slice(buf, 4, 6)),
                  data |-> IF data_length > 0
                           THEN Slice(buf, 6, 6 + data_length) ELSE <<>>,
                  rest |-> IF data_length > 0
                           THEN Slice(buf, 6 + data_length, Len(buf))
                           ELSE Slice(buf, 6, Len(buf))]

\* A read that forgets what it had buffered when it has to wait for more.
RECURSIVE readexactly_unbuffered(_, _, _)
readexactly_unbuffered(buf, pieces, n) ==
    IF Len(buf) >= n
    THEN [ok |-> TRUE, data |-> Slice(buf, 0, n),
          buf |-> Slice(buf, n, Len(buf)), pieces |-> pieces]
    ELSE IF pieces = <<>>
    THEN [ok |-> FALSE, data |-> <<>>, buf |-> buf, pieces |-> pieces]
    ELSE readexactly_unbuffered(Head(pieces), Tail(pieces), n)

\* StreamReader.readexactly(n): buf is the reader's buffer, pieces are the
\* segments the transport will still feed to it; the call waits until the
\* buffer holds n bytes and takes exactly these.
RECURSIVE readexactly(_, _, _)
readexactly(buf, pieces, n) ==
    IF Len(buf) >= n
    THEN [ok |-> TRUE, data |-> Slice(buf, 0, n),
          buf |-> Slice(buf, n, Len(buf)), pieces |-> pieces]
    ELSE IF pieces = <<>>
    THEN [ok |-> FALSE, data |-> <<>>, buf |-> buf, pieces |-> pieces]
    ELSE readexactly(buf \o Head(pieces), Tail(pieces), n)

\* RithmicBinaryProtocol.receive_message, its three reads one after the
\* other, on a connection that delivers its bytes in pieces.
receive_message_fed(buf, pieces) ==
    LET length_data == readexactly(buf, pieces, 4)
        msg_length == unpack_I(length_data.data)
        type_data == readexactly(length_data.buf, length_data.pieces, 2)
        data_length == msg_length - 2
        data == IF data_length > 0
                THEN readexactly(type_data.buf, type_data.pieces, data_length)
                ELSE [type_data EXCEPT !.data = <<>>]
    IN IF ~length_data.ok \/ ~type_data.ok \/ ~data.ok
       THEN [status |-> "incomplete"]
       ELSE [status |-> "frame", msg_type |-> unpack_H(type_data.data),
             data |-> data.data, buf |-> data.buf, pieces |-> data.pieces]

\* The dict built by parse_market_data: keys holds the keys set besides
\* 'type'; raised tells that struct.unpack, decode or fromtimestamp raised.
\* It never sets 'bids' or 'asks': data.get('bids', []) reads [].
Parsed(keys, symbol, price, size, ts, bp, bs, ap, as) ==
    [raised |-> FALSE, keys |-> keys, symbol |-> symbol, price |-> price,
     size |-> size, ts |-> ts, bid_price |-> bp, bid_size |-> bs,
     ask_price |-> ap, ask_size |-> as, bids |-> <<>>, asks |-> <<>>]
ParsedNothing == Parsed({}, <<>>, Null, Null, Null, Null, Null, Null, Null)
ParseRaised == [ParsedNothing EXCEPT !.raised = TRUE]

\* RithmicBinaryProtocol.parse_market_data
parse_market_data(msg_type, data) ==
    IF msg_type = 102 /\ Len(data) >= 24
    THEN LET symbol_len == unpack_I(Slice(data, 0, 4))
             symbol == Slice(data, 4, 4 + symbol_len)
             offset == 4 + symbol_len
             price == Slice(data, offset, offset + 8)
             size == Slice(data, offset + 8, offset + 12)
             timestamp == Slice(data, offset + 12, offset + 20)
         IN IF \/ DecodeFails(symbol)
               \/ Len(price) # 8 \/ Len(size) # 4 \/ Len(timestamp) # 8
            THEN ParseRaised
            ELSE IF TimestampOutOfRange(timestamp) THEN ParseRaised
            ELSE Parsed({"symbol", "price", "size", "timestamp"},
                        Decode(symbol), unpack_d(price), unpack_I(size),
                        unpack_Q(timestamp), Null, Null, Null, Null)
    ELSE IF msg_type = 103 /\ Len(data) >= 32
    THEN LET symbol_len == unpack_I(Slice(data, 0, 4))
             symbol == Slice(data, 4, 4 + symbol_len)
             offset == 4 + symbol_len
             bid_price == Slice(data, offset, offset + 8)
             bid_size == Slice(data, offset + 8, offset + 12)
             ask_price == Slice(data, offset + 12, offset + 20)
             ask_size == Slice(data, offset + 20, offset + 24)
         IN IF \/ DecodeFails(symbol)
               \/ Len(bid_price) # 8 \/ Len(bid_size) # 4
               \/ Len(ask_price) # 8 \/ Len(ask_size) # 4
            THEN ParseRaised
            ELSE Parsed({"symbol", "bid_price", "bid_size", "ask_price",
                         "ask_size"},
                        Decode(symbol), Null, Null, Null,
                        unpack_d(bid_price), unpack_I(bid_size),
                        unpack_d(ask_price), unpack_I(ask_size))
    ELSE ParsedNothing

\* ------------------------------------------------------------ text frames
\* A text frame is a JSON object and a newline.  Its characters are modelled
\* by atoms: "{", the body of the object (the name of a document of Doc
\* below), "}", and the white space " " and "\n".
Whitespace == {" ", "\n"}

\* The wall clock read by datetime.now(), in milliseconds.
Now == 200 * 1000

\* A parsed JSON object; a key that is absent holds Absent (strings), Null
\* (numbers) or <<>> (lists).
Msg(type, symbol, exchange, ts, price, size, bp, bs, ap, as, bids, asks) ==
    [type |-> type, symbol |-> symbol, exchange |-> exchange, ts |-> ts,
     price |-> price, size |-> size, bid_price |-> bp, bid_size |-> bs,
     ask_price |-> ap, ask_size |-> as, bids |-> bids, asks |-> asks]

DocNames ==
    {"trade", "tick", "quote", "bbo", "depth", "status", "error", "unknown",
     "notype"}

\* The documents the terminal sends.
Doc(name) ==
    CASE name = "trade" ->
            Msg("TRADE", ESU5, Absent, 60000, 450025, 3,
                Null, Null, Null, Null, <<>>, <<>>)
      [] name = "tick" ->
            Msg("TICK", GCQ5, COMEX, Null, 195010, 1,
                195000, 5, 195010, 7, <<>>, <<>>)
      [] name = "quote" ->
            Msg("QUOTE", GCQ5, COMEX, 120000, Null, Null,
                195000, 5, 195010, 7, <<>>, <<>>)
      [] name = "bbo" ->
            Msg("BBO", ESU5, Absent, Null, Null, Null,
                450025, 2, 450025, 4, <<>>, <<>>)
      [] name = "depth" ->
            Msg("DEPTH", GCQ5, Absent, 180000, Null, Null,
                Null, Null, Null, Null,
                <<[price |-> 195010, size |-> 5]>>, <<>>)
      [] name = "status" ->
            Msg("STATUS", Absent, Absent, Null, Null, Null,
                Null, Null, Null, Null, <<>>, <<>>)
      [] name = "error" ->
            Msg("ERROR", Absent, Absent, Null, Null, Null,
                Null, Null, Null, Null, <<>>, <<>>)
      [] name = "unknown" ->
            Msg("HEARTBEAT", Absent, Absent, Null, Null, Null,
                Null, Null, Null, Null, <<>>, <<>>)
      [] OTHER ->
            Msg("", ESU5, Absent, Null, 450025, 3,
                Null, Null, Null, Null, <<>>, <<>>)

\* json.dumps(obj) + '\n' as the terminal writes it.
Line(name) == <<"{", name, "}", "\n">>

\* str.strip()
RECURSIVE Strip(_)
Strip(str) ==
    IF str = <<>> THEN str
    ELSE IF str[1] \in Whitespace THEN Strip(Tail(str))
    ELSE IF str[Len(str)] \in Whitespace
    THEN Strip(SubSeq(str, 1, Len(str) - 1))
    ELSE str

\* str.split('\n')
RECURSIVE Split(_)
Split(str) ==
    IF \A i \in 1..Len(str) : str[i] # "\n" THEN <<str>>
    ELSE LET i == CHOOSE k \in 1..Len(str) :
                     str[k] = "\n" /\ \A j \in 1..(k - 1) : str[j] # "\n"
         IN <<SubSeq(str, 1, i - 1)>> \o Split(SubSeq(str, i + 1, Len(str)))

\* The body of a JSON object that holds a byte which is not UTF-8 (an
\* ISO-8859-1 accent, say).
NotUtf8 == {"latin1"}

\* data.decode('utf-8') raises UnicodeDecodeError.
TextDecodeFails(data) == \E i \in 1..Len(data) : data[i] \in NotUtf8

\* json.loads(msg_str): an object, or JSONDecodeError.
json_loads(msg_str) ==
    LET t == Strip(msg_str)
    IN IF Len(t) = 3 /\ t[1] = "{" /\ t[3] = "}" /\ t[2] \in DocNames
       THEN [ok |-> TRUE, name |-> t[2]]
       ELSE [ok |-> FALSE, name |-> ""]

\* ------------------------------------------------------------ persistence
TickRow(ts, symbol, exchange, price, size, bp, ap, bs, as) ==
    [ts |-> ts, symbol |-> symbol, exchange |-> exchange, price |-> price,
     size |-> size, bid_price |-> bp, ask_price |-> ap, bid_size |-> bs,
     ask_size |-> as]

\* "Decimal(str(data.get(k, 0))) if data.get(k) else None"
DecimalOrNone(v) == IF v = Null \/ v = 0 THEN Null ELSE v
\* data.get(k, 0)
GetOrZero(v) == IF v = Null THEN 0 ELSE v

\* What one handler call did: outcome is stored (committed), dropped (the
\* error was logged and the transaction rolled back), skipped (returned
\* without a word), logged, ignored, or raised (an exception left the
\* handler); rows are the rows it committed.
Result(outcome, tick, l2, rows) ==
    [outcome |-> outcome, tick |-> tick, l2 |-> l2, rows |-> rows]

\* A store without its rollback: what the failed transaction had done so far
\* stays in the session and is committed with the next record.
CommitWithoutRollback(tick, l2, newTick, newL2, rows) ==
    CASE sink = "ok" -> Result("stored", newTick, newL2, rows)
      [] sink = "reject" -> Result("dropped", newTick, newL2, <<>>)
      [] OTHER -> Result("raised", tick, l2, <<>>)

\* The try/except of a store: execute + commit, else log and rollback; the
\* rollback itself raises when the connection to the database is gone.
Commit(tick, l2, newTick, newL2, rows) ==
    CASE sink = "ok" -> Result("stored", newTick, newL2, rows)
      [] sink = "reject" -> Result("dropped", tick, l2, <<>>)
      [] OTHER -> Result("raised", tick, l2, <<>>)

\* RTraderProDataCollector._handle_tick_data
handle_tick_data(data, tick, l2) ==
    LET row == TickRow(IF data.ts = Null THEN Now ELSE data.ts,
                       data.symbol,
                       IF data.exchange = Absent THEN CME ELSE data.exchange,
                       GetOrZero(data.price), GetOrZero(data.size),
                       DecimalOrNone(data.bid_price),
                       DecimalOrNone(data.ask_price),
                       data.bid_size, data.ask_size)
    IN Commit(tick, l2, Append(tick, row), l2, <<row>>)

\* RTraderProDataCollector._handle_quote_data: its own try/except catches
\* what _handle_tick_data lets out.
handle_quote_data(data, tick, l2) ==
    LET r == handle_tick_data(data, tick, l2)
    IN IF r.outcome = "raised" THEN [r EXCEPT !.outcome = "dropped"] ELSE r

\* data.get(side, [])[:10] as rows of level2_data, levels 1, 2, ...
LevelRows(data, list, side) ==
    [i \in 1..Min(Len(list), 10) |->
        [ts |-> IF data.ts = Null THEN Now ELSE data.ts,
         symbol |-> data.symbol,
         exchange |-> IF data.exchange = Absent THEN CME ELSE data.exchange,
         side |-> side, level |-> i,
         price |-> GetOrZero(list[i].price),
         size |-> GetOrZero(list[i].size)]]

\* The rows of seq that satisfy Keep, in order.
RECURSIVE SelectRows(_, _, _)
SelectRows(seq, symbol, before) ==
    IF seq = <<>> THEN <<>>
    ELSE IF Head(seq).symbol = symbol /\ Head(seq).ts < before
    THEN SelectRows(Tail(seq), symbol, before)
    ELSE <<Head(seq)>> \o SelectRows(Tail(seq), symbol, before)

\* RTraderProDataCollector._handle_level2_data: delete the symbol's rows
\* older than one minute, insert up to 10 levels per side, commit.
handle_level2_data(data, tick, l2) ==
    LET ts == IF data.ts = Null THEN Now ELSE data.ts
        rows == LevelRows(data, data.bids, "B") \o
                LevelRows(data, data.asks, "S")
        kept == SelectRows(l2, data.symbol, ts - 60000)
    IN Commit(tick, l2, tick, kept \o rows, rows)

\* A dispatcher whose last branch hands the message to the tick callback
\* instead of logging it.
process_message_else_tick(message, tick, l2) ==
    CASE message.type \in {"QUOTE", "BBO"} ->
            handle_quote_data(message, tick, l2)
      [] message.type \in {"DEPTH", "LEVEL2"} ->
            handle_level2_data(message, tick, l2)
      [] message.type \in {"STATUS", "ERROR"} ->
            Result("logged", tick, l2, <<>>)
      [] OTHER -> handle_tick_data(message, tick, l2)

\* A dispatcher that treats an ERROR message from the terminal as fatal.
process_message_error_fatal(message, tick, l2) ==
    CASE message.type \in {"TICK", "TRADE"} ->
            handle_tick_data(message, tick, l2)
      [] message.type \in {"QUOTE", "BBO"} ->
            handle_quote_data(message, tick, l2)
      [] message.type \in {"DEPTH", "LEVEL2"} ->
            handle_level2_data(message, tick, l2)
      [] message.type = "STATUS" -> Result("logged", tick, l2, <<>>)
      [] message.type = "ERROR" -> Result("raised", tick, l2, <<>>)
      [] OTHER -> Result("ignored", tick, l2, <<>>)

\* RTraderProPlugin._process_message, with the three callbacks registered.
process_message(message, tick, l2) ==
    CASE message.type \in {"TICK", "TRADE"} ->
            handle_tick_data(message, tick, l2)
      [] message.type \in {"QUOTE", "BBO"} ->
            handle_quote_data(message, tick, l2)
      [] message.type \in {"DEPTH", "LEVEL2"} ->
            handle_level2_data(message, tick, l2)
      [] message.type \in {"STATUS", "ERROR"} ->
            Result("logged", tick, l2, <<>>)
      [] OTHER -> Result("ignored", tick, l2, <<>>)

\* A for loop over the lines of one recv that takes the newest line first.
RECURSIVE listen_lines_newest_first(_, _)
listen_lines_newest_first(lines, st) ==
    IF lines = <<>> \/ ~st.alive THEN st
    ELSE LET msg_str == lines[Len(lines)]
             rest == SubSeq(lines, 1, Len(lines) - 1)
             parsed == json_loads(msg_str)
             r == process_message(Doc(parsed.name), st.tick, st.l2)
         IN IF msg_str = <<>> THEN listen_lines_newest_first(rest, st)
            ELSE IF ~parsed.ok
            THEN listen_lines_newest_first(rest,
                    [st EXCEPT !.handled = Append(@,
                        [msg |-> "", outcome |-> "badjson", rows |-> <<>>])])
            ELSE listen_lines_newest_first(rest,
                    [tick |-> r.tick, l2 |-> r.l2,
                     handled |-> Append(st.handled,
                        [msg |-> parsed.name, outcome |-> r.outcome,
                         rows |-> r.rows]),
                     alive |-> r.outcome # "raised"])

\* The for loop of _listen over the lines of one recv: st is
\* [tick, l2, handled, alive]; an exception out of _process_message leaves
\* the loop (and the listener); a line that is not JSON is logged.
RECURSIVE listen_lines(_, _)
listen_lines(lines, st) ==
    IF lines = <<>> \/ ~st.alive THEN st
    ELSE LET msg_str == Head(lines)
             parsed == json_loads(msg_str)
             r == process_message(Doc(parsed.name), st.tick, st.l2)
         IN IF msg_str = <<>> THEN listen_lines(Tail(lines), st)
            ELSE IF ~parsed.ok
            THEN listen_lines(Tail(lines),
                    [st EXCEPT !.handled = Append(@,
                        [msg |-> "", outcome |-> "badjson", rows |-> <<>>])])
            ELSE listen_lines(Tail(lines),
                    [tick |-> r.tick, l2 |-> r.l2,
                     handled |-> Append(st.handled,
                        [msg |-> parsed.name, outcome |-> r.outcome,
                         rows |-> r.rows]),
                     alive |-> r.outcome # "raised"])

\* RithmicCollector.store_tick_data
store_tick_data(data, tick, l2) ==
    IF "symbol" \notin data.keys \/ "price" \notin data.keys
    THEN Result("skipped", tick, l2, <<>>)
    ELSE LET row == TickRow(IF "timestamp" \in data.keys THEN data.ts
                            ELSE Now,
                            data.symbol,
                            get_exchange_for_symbol(data.symbol),
                            data.price, GetOrZero(data.size),
                            DecimalOrNone(data.bid_price),
                            DecimalOrNone(data.ask_price),
                            data.bid_size, data.ask_size)
         IN Commit(tick, l2, Append(tick, row), l2, <<row>>)

\* enumerate(data.get(side, []), 1) as rows of level2_data: every entry,
\* levels 1, 2, ...; the exchange comes from the resolver.
DepthRows(data, list, side) ==
    [i \in 1..Len(list) |->
        [ts |-> IF "timestamp" \in data.keys THEN data.ts ELSE Now,
         symbol |-> data.symbol,
         exchange |-> get_exchange_for_symbol(data.symbol),
         side |-> side, level |-> i,
         price |-> list[i].price,
         size |-> list[i].size]]

\* RithmicCollector.store_depth_data: insert every bid and every ask, commit.
\* (parse_market_data never sets 'symbol' for a depth message, so for a
\* frame off the wire the guard returns at once.)
store_depth_data(data, tick, l2) ==
    IF "symbol" \notin data.keys
    THEN Result("skipped", tick, l2, <<>>)
    ELSE LET rows == DepthRows(data, data.bids, "B") \o
                     DepthRows(data, data.asks, "S")
         IN Commit(tick, l2, tick, l2 \o rows, rows)

\* The body of RithmicCollector.process_messages after a frame was received.
dispatch(msg_type, data, tick, l2) ==
    LET parsed_data == parse_market_data(msg_type, data)
    IN IF parsed_data.raised THEN Result("parse_raised", tick, l2, <<>>)
       ELSE CASE msg_type \in {102, 103} ->
                    store_tick_data(parsed_data, tick, l2)
              [] msg_type = 109 -> store_depth_data(parsed_data, tick, l2)
              [] OTHER -> Result("ignored", tick, l2, <<>>)

\* ------------------------------------------------------------ inputs
Variants == {"text", "binary"}

\* Values of the SYMBOLS environment variable after split(',') and strip().
\* (split never yields an empty list.)
SymbolLists ==
    { <<ESU5>>, <<GCQ5>>, <<full_symbol(GCQ5, CME)>>, <<NQU5, GCQ5>> }

\* Control-queue requests: {"symbol": s, "exchange": e}, "exchange" optional.
Requests ==
    [symbol : {GCQ5, NQU5}, exchange : {CME, COMEX, Absent}]


\* Number of connect attempts of RithmicCollector.run (while retry_count < 5).
MaxAttempts == 5

Frame(symbol, exchange) == [symbol |-> symbol, exchange |-> exchange]

\* send_message of either client: FALSE when not connected, FALSE when the
\* socket write raises (the peer is gone), else the frame is written.
SendOk == connected /\ sockUp

\* The callbacks connect_rtrader_pro registers with set_callback.
AllCallbacks == {"tick_callback", "quote_callback", "level2_callback"}

\* RTraderProPlugin.callbacks once connect_rtrader_pro has returned (the
\* binary collector has no callback table).
Registered == IF variant = "text" THEN AllCallbacks ELSE {}

Init ==
    /\ variant \in Variants
    /\ symbols \in SymbolLists
    /\ pc = "start"
    /\ retry_count = 0
    /\ attempts = 0
    /\ succeededAt = 0
    /\ idx = 1
    /\ connected = FALSE
    /\ sockUp = FALSE
    /\ listening = FALSE
    /\ listenStarted = FALSE
    /\ subscribed_symbols = {}
    /\ queue = <<>>
    /\ wire = <<>>
    /\ delivered = <<>>
    /\ pushes = 0
    /\ exit = "none"
    /\ stream = <<>>
    /\ chunks = <<>>
    /\ sent = <<>>
    /\ rxEnd = "open"
    /\ sink = "ok"
    /\ tick_data = <<>>
    /\ level2_data = <<>>
    /\ handled = <<>>
    /\ killedBy = "none"
    /\ inWrite = {}
    /\ pending = <<>>
    /\ remaining = <<>>
    /\ callbacks = {}
    /\ timeouts = 0
    /\ new_symbols = <<>>

\* run() ends: the finally block (client.disconnect(), close db and redis)
\* or a return before it; either way the connection flag is down.
Cleanup(how) ==
    /\ pc' = "done"
    /\ exit' = how
    /\ connected' = FALSE
    /\ sockUp' = FALSE
    /\ listening' = FALSE

\* run(): connect_database() and connect_redis().  The text collector
\* re-raises a failure, the binary collector returns.
ConnectServices ==
    /\ pc = "start"
    /\ \E ok \in BOOLEAN :
        IF ok
        THEN /\ pc' = "connect"
             /\ UNCHANGED <<exit, connected, sockUp, listening>>
        ELSE Cleanup(IF variant = "text" THEN "raised" ELSE "returned")
    /\ UNCHANGED <<readVars, writeVars, threadVars, new_symbols>>
    /\ UNCHANGED <<variant, retry_count, attempts, succeededAt, idx,
                   listenStarted, symbols, subscribed_symbols, queue, wire,
                   delivered, pushes>>

\* RTraderProDataCollector.connect_rtrader_pro: one connect(); on success
\* the listener thread is started inside connect() and the three callbacks
\* are registered, on failure it raises.
connect_rtrader_pro ==
    /\ variant = "text"
    /\ pc = "connect"
    /\ attempts' = attempts + 1
    /\ \E ok \in BOOLEAN :
        IF ok
        THEN /\ connected' = TRUE
             /\ sockUp' = TRUE
             /\ listening' = TRUE
             /\ listenStarted' = TRUE
             /\ succeededAt' = attempts + 1
             /\ pc' = "subscribe"
             /\ exit' = exit
             /\ callbacks' = AllCallbacks
        ELSE /\ Cleanup("raised")
             /\ UNCHANGED <<listenStarted, succeededAt, callbacks>>
    /\ UNCHANGED <<readVars, writeVars, remaining, timeouts, new_symbols>>
    /\ UNCHANGED <<variant, retry_count, idx, symbols, subscribed_symbols,
                   queue, wire, delivered, pushes>>

\* RithmicCollector.run: one iteration of the retry loop, and the check
\* after the loop once it has ended.
run_connect ==
    /\ variant = "binary"
    /\ pc = "connect"
    /\ retry_count < MaxAttempts
    /\ attempts' = attempts + 1
    /\ \E ok \in BOOLEAN :
        IF ok
        THEN /\ connected' = TRUE
             /\ sockUp' = TRUE
             /\ succeededAt' = attempts + 1
             /\ pc' = "subscribe"
             /\ UNCHANGED <<retry_count, exit, listening>>
        ELSE /\ retry_count' = retry_count + 1
             /\ succeededAt' = succeededAt
             /\ IF retry_count + 1 < MaxAttempts
                THEN UNCHANGED <<pc, exit, connected, sockUp, listening>>
                ELSE Cleanup("returned")
    /\ UNCHANGED <<readVars, writeVars, threadVars, new_symbols>>
    /\ UNCHANGED <<variant, idx, listenStarted, symbols, subscribed_symbols,
                   queue, wire, delivered, pushes>>

\* set(self.symbols) as a membership test
InList(x, list) == \E i \in 1..Len(list) : list[i] = x

\* RTraderProDataCollector.subscribe_symbols, one iteration of its loop:
\* parse the token, send the subscribe frame, record the TOKEN on success.
subscribe_symbols ==
    /\ variant = "text"
    /\ pc = "subscribe"
    /\ idx <= Len(symbols)
    /\ LET tok == symbols[idx]
           sym == IF HasColon(tok) THEN SplitColon(tok)[1] ELSE tok
           exchange == IF HasColon(tok) THEN SplitColon(tok)[2] ELSE CME
       IN IF SendOk
          THEN /\ wire' = Append(wire, Frame(sym, exchange))
               /\ subscribed_symbols' = subscribed_symbols \cup {tok}
          ELSE UNCHANGED <<wire, subscribed_symbols>>
    /\ idx' = idx + 1
    /\ UNCHANGED <<readVars, writeVars, threadVars, new_symbols>>
    /\ UNCHANGED <<variant, pc, retry_count, attempts, succeededAt, connected,
                   sockUp, listening, listenStarted, symbols, queue,
                   delivered, pushes, exit>>

\* RithmicCollector.subscribe_symbol: the exchange comes from the resolver;
\* the result of send_message is ignored.
subscribe_symbol(symbol) ==
    IF SendOk
    THEN wire' = Append(wire, Frame(symbol, get_exchange_for_symbol(symbol)))
    ELSE wire' = wire

\* RithmicCollector.run: "for symbol in self.symbols: subscribe_symbol".
run_subscribe ==
    /\ variant = "binary"
    /\ pc = "subscribe"
    /\ idx <= Len(symbols)
    /\ subscribe_symbol(symbols[idx])
    /\ idx' = idx + 1
    /\ UNCHANGED <<readVars, writeVars, threadVars, new_symbols>>
    /\ UNCHANGED <<variant, pc, retry_count, attempts, succeededAt, connected,
                   sockUp, listening, listenStarted, symbols,
                   subscribed_symbols, queue, delivered, pushes, exit>>

\* The initial subscriptions are done: the text collector enters its main
\* loop (its listener runs since connect()); the binary collector creates the
\* process_messages and subscription_checker tasks and awaits them.
run_start_loop ==
    /\ pc = "subscribe"
    /\ idx > Len(symbols)
    /\ pc' = "poll"
    /\ IF variant = "binary"
       THEN listening' = TRUE /\ listenStarted' = TRUE
       ELSE UNCHANGED <<listening, listenStarted>>
    /\ UNCHANGED <<readVars, writeVars, threadVars, new_symbols>>
    /\ UNCHANGED <<variant, retry_count, attempts, succeededAt, idx,
                   connected, sockUp, symbols, subscribed_symbols, queue,
                   wire, delivered, pushes, exit>>

\* RTraderProDataCollector.check_new_subscriptions: lpop one request; the
\* dedup key is "symbol:exchange" with 'CME' for a missing exchange.
rtrader_check_new_subscriptions ==
    /\ variant = "text"
    /\ pc = "poll"
    /\ pc' = "sleep"
    /\ IF queue = <<>>
       THEN UNCHANGED <<queue, wire, subscribed_symbols, delivered>>
       ELSE LET data == Head(queue)
                symbol == data.symbol
                exchange == IF data.exchange = Absent THEN CME
                            ELSE data.exchange
                key == full_symbol(symbol, exchange)
                send == key \notin subscribed_symbols /\ SendOk
            IN /\ queue' = Tail(queue)
               /\ IF send
                  THEN /\ wire' = Append(wire, Frame(symbol, exchange))
                       /\ subscribed_symbols' = subscribed_symbols \cup {key}
                  ELSE UNCHANGED <<wire, subscribed_symbols>>
               /\ delivered' = Append(delivered,
                      [req |-> data, up |-> SendOk, sent |-> send])
    /\ UNCHANGED <<readVars, writeVars, threadVars, new_symbols>>
    /\ UNCHANGED <<variant, retry_count, attempts, succeededAt, idx,
                   connected, sockUp, listening, listenStarted, symbols,
                   pushes, exit>>

\* RithmicCollector.check_new_subscriptions: lpop one request; the dedup key
\* is the symbol alone, the request's exchange is not read; the symbol is
\* appended to self.symbols whether or not a frame can be sent.
binary_check_new_subscriptions ==
    /\ variant = "binary"
    /\ pc = "poll"
    /\ pc' = "sleep"
    /\ IF queue = <<>>
       THEN UNCHANGED <<queue, wire, symbols, delivered>>
       ELSE LET data == Head(queue)
                symbol == data.symbol
                new == ~InList(symbol, symbols)
            IN /\ queue' = Tail(queue)
               /\ symbols' = IF new THEN Append(symbols, symbol) ELSE symbols
               /\ IF new /\ connected
                  THEN subscribe_symbol(symbol)
                  ELSE wire' = wire
               /\ delivered' = Append(delivered,
                      [req |-> data, up |-> SendOk, sent |-> new /\ SendOk])
    /\ UNCHANGED <<readVars, writeVars, threadVars, new_symbols>>
    /\ UNCHANGED <<variant, retry_count, attempts, succeededAt, idx,
                   connected, sockUp, listening, listenStarted,
                   subscribed_symbols, pushes, exit>>

\* A single-threaded loop instead: the next poll waits for the read to
\* return a frame.
poll_after_recv ==
    /\ pc = "sleep"
    /\ handled # <<>>
    /\ pc' = "poll"
    /\ UNCHANGED <<readVars, writeVars, threadVars, new_symbols>>
    /\ UNCHANGED <<variant, retry_count, attempts, succeededAt, idx,
                   connected, sockUp, listening, listenStarted, symbols,
                   subscribed_symbols, queue, wire, delivered, pushes, exit>>

\* The sleep between two polls (asyncio.sleep(1) / asyncio.sleep(5)).
poll_sleep ==
    /\ pc = "sleep"
    /\ pc' = "poll"
    /\ UNCHANGED <<readVars, writeVars, threadVars, new_symbols>>
    /\ UNCHANGED <<variant, retry_count, attempts, succeededAt, idx,
                   connected, sockUp, listening, listenStarted, symbols,
                   subscribed_symbols, queue, wire, delivered, pushes, exit>>

\* A producer (api, add_symbols, db_manager, control centre): rpush.
Push ==
    /\ pushes < MaxPush
    /\ pc # "done"
    /\ \E r \in Requests : queue' = Append(queue, r)
    /\ pushes' = pushes + 1
    /\ UNCHANGED <<readVars, writeVars, threadVars, new_symbols>>
    /\ UNCHANGED <<variant, pc, retry_count, attempts, succeededAt, idx,
                   connected, sockUp, listening, listenStarted, symbols,
                   subscribed_symbols, wire, delivered, exit>>

\* The terminal closes or loses the TCP connection.
PeerClose ==
    /\ sockUp
    /\ sockUp' = FALSE
    /\ UNCHANGED <<readVars, writeVars, threadVars, new_symbols>>
    /\ UNCHANGED <<variant, pc, retry_count, attempts, succeededAt, idx,
                   connected, listening, listenStarted, symbols,
                   subscribed_symbols, queue, wire, delivered, pushes, exit>>

\* RTraderProPlugin._listen leaves its loop: recv returned b'' or raised
\* (both need a dead socket), or a handler raised.  All paths end in
\* "self.connected = False".
listen_stop ==
    /\ variant = "text"
    /\ listening
    /\ pc # "done"
    /\ listening' = FALSE
    /\ connected' = FALSE
    /\ UNCHANGED <<readVars, writeVars, threadVars, new_symbols>>
    /\ UNCHANGED <<variant, pc, retry_count, attempts, succeededAt, idx,
                   sockUp, listenStarted, symbols, subscribed_symbols, queue,
                   wire, delivered, pushes, exit>>

\* RithmicCollector.process_messages ends because receive_message returned
\* (None, None): after IncompleteReadError ("eof": connected is cleared) or
\* after any other exception of the read ("error": connected is left as is).
process_messages_stop ==
    /\ variant = "binary"
    /\ listening
    /\ pc # "done"
    /\ ~sockUp
    /\ listening' = FALSE
    /\ \E cause \in {"eof", "error"} :
          connected' = IF cause = "eof" THEN FALSE ELSE connected
    /\ UNCHANGED <<readVars, writeVars, threadVars, new_symbols>>
    /\ UNCHANGED <<variant, pc, retry_count, attempts, succeededAt, idx,
                   sockUp, listenStarted, symbols, subscribed_symbols, queue,
                   wire, delivered, pushes, exit>>

\* RithmicCollector.process_messages raises (parse or store raised): the
\* exception leaves asyncio.gather, the finally block runs and run() raises.
process_messages_raise ==
    /\ variant = "binary"
    /\ listening
    /\ pc # "done"
    /\ Cleanup("raised")
    /\ UNCHANGED <<readVars, writeVars, threadVars, new_symbols>>
    /\ UNCHANGED <<variant, retry_count, attempts, succeededAt, idx,
                   listenStarted, symbols, subscribed_symbols, queue, wire,
                   delivered, pushes>>

\* KeyboardInterrupt in the main loop: leave the loop, run the finally block.
KeyboardInterrupt ==
    /\ pc \in {"poll", "sleep"}
    /\ Cleanup("interrupted")
    /\ UNCHANGED <<readVars, writeVars, threadVars, new_symbols>>
    /\ UNCHANGED <<variant, retry_count, attempts, succeededAt, idx,
                   listenStarted, symbols, subscribed_symbols, queue, wire,
                   delivered, pushes>>

Next ==
    \/ ConnectServices
    \/ connect_rtrader_pro
    \/ run_connect
    \/ subscribe_symbols
    \/ run_subscribe
    \/ run_start_loop
    \/ rtrader_check_new_subscriptions
    \/ binary_check_new_subscriptions
    \/ poll_sleep
    \/ Push
    \/ PeerClose
    \/ listen_stop
    \/ process_messages_stop
    \/ process_messages_raise
    \/ KeyboardInterrupt

Spec == Init /\ [][Next]_vars

\* ------------------------------------------------------------ read inputs
SeqsUpTo(S, n) == UNION {[1..k -> S] : k \in 0..n}

RECURSIVE Concat(_)
Concat(seqs) == IF seqs = <<>> THEN <<>> ELSE Head(seqs) \o Concat(Tail(seqs))

\* text[start..] cut after each position of cuts.
RECURSIVE CutUp(_, _, _)
CutUp(text, cuts, start) ==
    LET ahead == {c \in cuts : c >= start /\ c < Len(text)}
    IN IF ahead = {} THEN <<SubSeq(text, start, Len(text))>>
       ELSE LET c == CHOOSE x \in ahead : \A y \in ahead : x <= y
            IN <<SubSeq(text, start, c)>> \o CutUp(text, cuts, c + 1)

\* What the terminal sends as text: up to MaxLines lines, each a document or
\* a line that is not JSON (as text, or not even UTF-8); every line in a
\* recv of its own, or all lines in one recv.
TextLines(names) == [i \in 1..Len(names) |-> Line(names[i])]
ContentInputs ==
    LET texts == SeqsUpTo(DocNames \cup {"junk"} \cup NotUtf8, MaxLines)
    IN {TextLines(t) : t \in texts} \cup
       {<<Concat(TextLines(t))>> : t \in texts \ {<<>>}}

\* The same stream of lines cut at up to MaxCuts arbitrary places.
FramingInputs ==
    LET texts == SeqsUpTo({"trade", "quote"}, MaxLines) \ {<<>>}
    IN UNION {
         {CutUp(Concat(TextLines(t)), cuts, 1) :
            cuts \in {c \in SUBSET (1..(4 * Len(t) - 1)) :
                        Cardinality(c) >= 1 /\ Cardinality(c) <= MaxCuts}}
         : t \in texts}

TextInputs == ContentInputs \cup FramingInputs

\* Payloads of LAST_TRADE and BID_OFFER as parse_market_data reads them.
TradePayload(symbol, price, size, ts) ==
    pack_I(Len(symbol)) \o Encode(symbol) \o pack_d(price) \o pack_I(size)
        \o pack_Q(ts)
QuotePayload(symbol, bp, bs, ap, as) ==
    pack_I(Len(symbol)) \o Encode(symbol) \o pack_d(bp) \o pack_I(bs)
        \o pack_d(ap) \o pack_I(as)

TradeESU5 == TradePayload(ESU5, 450025, 3, 60000)
QuoteGCQ5 == QuotePayload(GCQ5, 195000, 5, 195010, 7)

\* The largest payload a frame may announce (the specification's configured
\* maximum, 16 MiB there; the collector itself defines none).
MaxFrameSize == 64

\* The frames the terminal sends: a trade, the same trade with its payload
\* cut to 24 and to 10 bytes, a trade whose symbol length says 8, a quote,
\* a depth update, an unhandled type, a bare header of another type, and a
\* frame whose payload is one byte longer than MaxFrameSize.
BinaryFrames ==
    { EncodeFrame(102, TradeESU5),
      EncodeFrame(102, Slice(TradeESU5, 0, 24)),
      EncodeFrame(102, Slice(TradeESU5, 0, 10)),
      EncodeFrame(102, pack_I(8) \o Slice(TradeESU5, 4, 28)),
      EncodeFrame(103, QuoteGCQ5),
      EncodeFrame(109, QuoteGCQ5),
      EncodeFrame(104, <<1>>),
      EncodeFrame(300, <<>>),
      EncodeFrame(104, [i \in 1..(MaxFrameSize + 1) |-> 0]) }

\* Up to MaxFrames whole frames, then the first 0, 3, 5 or 9 bytes of one more.
BinaryInputs ==
    {Concat(fs) \o Slice(EncodeFrame(102, TradeESU5), 0, k) :
        fs \in SeqsUpTo(BinaryFrames, MaxFrames), k \in {0, 3, 5, 9}}

\* The read loops start on an established connection: the state of run()
\* once the initial symbol ESU5 is subscribed and the main loop is entered.
ReadInit ==
    /\ variant \in Variants
    /\ symbols = <<ESU5>>
    /\ pc = "poll"
    /\ retry_count = 0
    /\ attempts = 1
    /\ succeededAt = 1
    /\ idx = 2
    /\ connected = TRUE
    /\ sockUp = TRUE
    /\ listening = TRUE
    /\ listenStarted = TRUE
    /\ subscribed_symbols = IF variant = "text" THEN {ESU5} ELSE {}
    /\ queue = <<>>
    /\ wire = <<Frame(ESU5, CME)>>
    /\ delivered = <<>>
    /\ pushes = 0
    /\ exit = "none"
    /\ IF variant = "text"
       THEN chunks \in TextInputs /\ stream = <<>>
       ELSE stream \in BinaryInputs /\ chunks = <<>>
    /\ sent = IF variant = "text" THEN Concat(chunks) ELSE stream
    /\ rxEnd \in {"open", "eof", "error"}
    /\ sink = "ok"
    /\ tick_data = <<>>
    /\ level2_data = <<>>
    /\ handled = <<>>
    /\ killedBy = "none"
    /\ inWrite = {}
    /\ pending = <<>>
    /\ remaining = <<>>
    /\ callbacks = Registered
    /\ timeouts = 0
    /\ new_symbols = <<>>

\* RTraderProPlugin._listen, one iteration of its while loop: recv, then
\* the for loop over the lines; b'' or an exception (of recv, of decode, of
\* a handler) ends the listener, which clears connected.  (A recv timeout
\* changes nothing.)
listen ==
    /\ variant = "text"
    /\ listening /\ connected /\ pc # "done"
    /\ IF chunks # <<>>
       THEN LET data == Head(chunks)
                messages == Split(Strip(data))
                st == listen_lines(messages,
                         [tick |-> tick_data, l2 |-> level2_data,
                          handled |-> handled, alive |-> TRUE])
            IN /\ chunks' = Tail(chunks)
               /\ sockUp' = sockUp
               /\ IF TextDecodeFails(data)
                  THEN /\ killedBy' = "decode"
                       /\ listening' = FALSE
                       /\ connected' = FALSE
                       /\ UNCHANGED <<tick_data, level2_data, handled>>
                  ELSE /\ tick_data' = st.tick
                       /\ level2_data' = st.l2
                       /\ handled' = st.handled
                       /\ listening' = st.alive
                       /\ connected' = st.alive
                       /\ killedBy' = IF st.alive THEN killedBy
                                      ELSE "persist"
       ELSE /\ rxEnd \in {"eof", "error"}
            /\ killedBy' = rxEnd
            /\ listening' = FALSE
            /\ connected' = FALSE
            /\ sockUp' = FALSE
            /\ UNCHANGED <<chunks, tick_data, level2_data, handled>>
    /\ UNCHANGED <<variant, pc, retry_count, attempts, succeededAt, idx,
                   listenStarted, symbols, subscribed_symbols, queue, wire,
                   delivered, pushes, exit, stream, sent, rxEnd, sink>>
    /\ UNCHANGED <<writeVars, threadVars, new_symbols>>

\* RithmicCollector.process_messages, one iteration of its while loop:
\* receive_message, parse_market_data, store.  (None, None) ends the loop:
\* IncompleteReadError clears protocol.connected, another exception of the
\* read does not.  An exception of parse or store leaves the task, reaches
\* run() through asyncio.gather and ends it by its finally block.
process_messages ==
    /\ variant = "binary"
    /\ listening /\ connected /\ pc # "done"
    /\ LET got == receive_message(stream)
       IN IF got.status = "incomplete"
          THEN /\ rxEnd \in {"eof", "error"}
               /\ stream' = <<>>
               /\ killedBy' = rxEnd
               /\ listening' = FALSE
               /\ connected' = IF rxEnd = "eof" THEN FALSE ELSE connected
               /\ sockUp' = FALSE
               /\ UNCHANGED <<pc, exit, tick_data, level2_data, handled>>
          ELSE LET r == dispatch(got.msg_type, got.data, tick_data,
                                 level2_data)
                   fatal == r.outcome \in {"raised", "parse_raised"}
               IN /\ stream' = got.rest
                  /\ tick_data' = r.tick
                  /\ level2_data' = r.l2
                  /\ handled' = Append(handled,
                        [msg |-> got.msg_type, outcome |-> r.outcome,
                         rows |-> r.rows, size |-> Len(got.data)])
                  /\ IF fatal
                     THEN /\ killedBy' = IF r.outcome = "raised"
                                         THEN "persist" ELSE "parse"
                          /\ Cleanup("raised")
                     ELSE UNCHANGED <<killedBy, pc, exit, connected, sockUp,
                                      listening>>
    /\ UNCHANGED <<variant, retry_count, attempts, succeededAt, idx,
                   listenStarted, symbols, subscribed_symbols, queue, wire,
                   delivered, pushes, chunks, sent, rxEnd, sink>>
    /\ UNCHANGED <<writeVars, threadVars, new_symbols>>

\* The database starts or stops rejecting statements, or its connection is
\* lost for good (the collectors never reconnect).
SinkChange ==
    /\ sink # "lost"
    /\ pc # "done"
    /\ sink' \in {"ok", "reject", "lost"} \ {sink}
    /\ UNCHANGED <<runVars, writeVars, threadVars, new_symbols>>
    /\ UNCHANGED <<stream, chunks, sent, rxEnd, tick_data, level2_data,
                   handled, killedBy>>

ReadNext ==
    \/ listen
    \/ process_messages
    \/ SinkChange

ReadSpec == ReadInit /\ [][ReadNext]_vars

\* ------------------------------------------------------------ depth updates
\* n price levels, best first.
Levels(n) == [i \in 1..n |-> [price |-> 195000 + 10 * i, size |-> i]]

\* Numbers of bids and of asks in a depth update.
BidSizes == {0, 1, 10, MaxLevels}
AskSizes == {0, MaxLevels}
DepthTimes == {60000, 180000}

\* A DEPTH message of the text protocol with n bids and m asks.
TextDepth(n, m, ts) ==
    Msg("DEPTH", GCQ5, Absent, ts, Null, Null, Null, Null, Null, Null,
        Levels(n), Levels(m))

\* The dict store_depth_data reads: 'symbol', 'timestamp', 'bids', 'asks'.
BinaryDepth(n, m, ts) ==
    [Parsed({"symbol", "timestamp", "bids", "asks"}, GCQ5, Null, Null, ts,
            Null, Null, Null, Null)
        EXCEPT !.bids = Levels(n), !.asks = Levels(m)]

\* The store handlers run on an established connection with empty tables.
StoreInit ==
    /\ variant \in Variants
    /\ symbols = <<GCQ5>>
    /\ pc = "poll"
    /\ retry_count = 0
    /\ attempts = 1
    /\ succeededAt = 1
    /\ idx = 2
    /\ connected = TRUE
    /\ sockUp = TRUE
    /\ listening = TRUE
    /\ listenStarted = TRUE
    /\ subscribed_symbols = IF variant = "text" THEN {GCQ5} ELSE {}
    /\ queue = <<>>
    /\ wire = <<Frame(GCQ5, IF variant = "text" THEN CME ELSE COMEX)>>
    /\ delivered = <<>>
    /\ pushes = 0
    /\ exit = "none"
    /\ stream = <<>>
    /\ chunks = <<>>
    /\ sent = <<>>
    /\ rxEnd = "open"
    /\ sink = "ok"
    /\ tick_data = <<>>
    /\ level2_data = <<>>
    /\ handled = <<>>
    /\ killedBy = "none"
    /\ inWrite = {}
    /\ pending = <<>>
    /\ remaining = <<>>
    /\ callbacks = Registered
    /\ timeouts = 0
    /\ new_symbols = <<>>

\* The listener hands a DEPTH message to the level2 callback,
\* RTraderProDataCollector._handle_level2_data; an exception out of it
\* ends the listener as in _listen.
level2_callback ==
    /\ variant = "text"
    /\ listening /\ connected /\ pc # "done"
    /\ Len(handled) < MaxCalls
    /\ \E n \in BidSizes, m \in AskSizes, ts \in DepthTimes :
          LET data == TextDepth(n, m, ts)
              r == handle_level2_data(data, tick_data, level2_data)
          IN /\ tick_data' = r.tick
             /\ level2_data' = r.l2
             /\ handled' = Append(handled,
                   [msg |-> "depth", outcome |-> r.outcome, rows |-> r.rows,
                    data |-> data])
             /\ listening' = (r.outcome # "raised")
             /\ connected' = (r.outcome # "raised")
             /\ killedBy' = IF r.outcome = "raised" THEN "persist"
                            ELSE killedBy
    /\ UNCHANGED <<variant, pc, retry_count, attempts, succeededAt, idx,
                   sockUp, listenStarted, symbols, subscribed_symbols, queue,
                   wire, delivered, pushes, exit, stream, chunks, sent,
                   rxEnd, sink>>
    /\ UNCHANGED <<writeVars, threadVars, new_symbols>>

\* RithmicCollector.store_depth_data called with a depth dict; an exception
\* out of it leaves process_messages and ends run().
depth_store ==
    /\ variant = "binary"
    /\ listening /\ connected /\ pc # "done"
    /\ Len(handled) < MaxCalls
    /\ \E n \in BidSizes, m \in AskSizes, ts \in DepthTimes :
          LET data == BinaryDepth(n, m, ts)
              r == store_depth_data(data, tick_data, level2_data)
          IN /\ tick_data' = r.tick
             /\ level2_data' = r.l2
             /\ handled' = Append(handled,
                   [msg |-> 109, outcome |-> r.outcome, rows |-> r.rows,
                    data |-> data])
             /\ IF r.outcome = "raised"
                THEN /\ killedBy' = "persist"
                     /\ Cleanup("raised")
                ELSE UNCHANGED <<killedBy, pc, exit, connected, sockUp,
                                 listening>>
    /\ UNCHANGED <<variant, retry_count, attempts, succeededAt, idx,
                   listenStarted, symbols, subscribed_symbols, queue, wire,
                   delivered, pushes, stream, chunks, sent, rxEnd, sink>>
    /\ UNCHANGED <<writeVars, threadVars, new_symbols>>

\* The listener hands a TRADE or TICK message to the tick callback,
\* RTraderProDataCollector._handle_tick_data.
tick_callback ==
    /\ variant = "text"
    /\ listening /\ connected /\ pc # "done"
    /\ Len(handled) < MaxCalls
    /\ \E name \in {"trade"} :
          LET r == handle_tick_data(Doc(name), tick_data, level2_data)
          IN /\ tick_data' = r.tick
             /\ level2_data' = r.l2
             /\ handled' = Append(handled,
                   [msg |-> name, outcome |-> r.outcome, rows |-> r.rows,
                    data |-> Doc(name)])
             /\ listening' = (r.outcome # "raised")
             /\ connected' = (r.outcome # "raised")
             /\ killedBy' = IF r.outcome = "raised" THEN "persist"
                            ELSE killedBy
    /\ UNCHANGED <<variant, pc, retry_count, attempts, succeededAt, idx,
                   sockUp, listenStarted, symbols, subscribed_symbols, queue,
                   wire, delivered, pushes, exit, stream, chunks, sent,
                   rxEnd, sink>>
    /\ UNCHANGED <<writeVars, threadVars, new_symbols>>

\* RithmicCollector.store_tick_data called with a parsed LAST_TRADE.
tick_store ==
    /\ variant = "binary"
    /\ listening /\ connected /\ pc # "done"
    /\ Len(handled) < MaxCalls
    /\ LET data == parse_market_data(102, TradeESU5)
           r == store_tick_data(data, tick_data, level2_data)
       IN /\ tick_data' = r.tick
          /\ level2_data' = r.l2
          /\ handled' = Append(handled,
                [msg |-> 102, outcome |-> r.outcome, rows |-> r.rows,
                 data |-> data])
          /\ IF r.outcome = "raised"
             THEN /\ killedBy' = "persist"
                  /\ Cleanup("raised")
             ELSE UNCHANGED <<killedBy, pc, exit, connected, sockUp,
                              listening>>
    /\ UNCHANGED <<variant, retry_count, attempts, succeededAt, idx,
                   listenStarted, symbols, subscribed_symbols, queue, wire,
                   delivered, pushes, stream, chunks, sent, rxEnd, sink>>
    /\ UNCHANGED <<writeVars, threadVars, new_symbols>>

StoreNext ==
    \/ level2_callback
    \/ depth_store
    \/ tick_callback
    \/ tick_store
    \/ SinkChange

StoreSpec == StoreInit /\ [][StoreNext]_vars

\* ------------------------------------------------------------ main loop
\* The two activities of a running collector, step by step: the read loop
\* (listen / process_messages) and the reconciliation poll, whose
\* send_message is not atomic: the frame goes out in two halves (a thread
\* switch inside socket.send, the await of writer.drain()).
Half(frame, k) ==
    [symbol |-> frame.symbol, exchange |-> frame.exchange, half |-> k]

\* What the terminal sends while the loop runs: nothing at all, one trade,
\* or a status and a trade; then the connection stays open and silent.
LoopInit ==
    /\ variant \in Variants
    /\ symbols = <<ESU5>>
    /\ pc = "poll"
    /\ retry_count = 0
    /\ attempts = 1
    /\ succeededAt = 1
    /\ idx = 2
    /\ connected = TRUE
    /\ sockUp = TRUE
    /\ listening = TRUE
    /\ listenStarted = TRUE
    /\ subscribed_symbols = IF variant = "text" THEN {ESU5} ELSE {}
    /\ queue = <<>>
    /\ wire = <<Half(Frame(ESU5, CME), 1), Half(Frame(ESU5, CME), 2)>>
    /\ delivered = <<>>
    /\ pushes = 0
    /\ exit = "none"
    /\ IF variant = "text"
       THEN /\ chunks \in {<<>>, <<Line("trade")>>,
                           <<Line("status"), Line("trade")>>}
            /\ stream = <<>>
       ELSE /\ stream \in {<<>>, EncodeFrame(102, TradeESU5),
                           EncodeFrame(104, <<1>>)
                              \o EncodeFrame(102, TradeESU5)}
            /\ chunks = <<>>
    /\ sent = IF variant = "text" THEN Concat(chunks) ELSE stream
    /\ rxEnd = "open"
    /\ sink = "ok"
    /\ tick_data = <<>>
    /\ level2_data = <<>>
    /\ handled = <<>>
    /\ killedBy = "none"
    /\ inWrite = {}
    /\ pending = <<>>
    /\ remaining = <<>>
    /\ callbacks = Registered
    /\ timeouts = 0
    /\ new_symbols = <<>>

\* check_new_subscriptions of either collector up to the point where
\* send_message has started writing: lpop, the dedup test, and the first
\* half of the frame.  (RithmicCollector appends the symbol before it sends.)
check_new_subscriptions_pop ==
    /\ pc = "poll"
    /\ IF queue = <<>>
       THEN /\ pc' = "sleep"
            /\ UNCHANGED <<queue, symbols, delivered, wire, inWrite, pending>>
       ELSE LET data == Head(queue)
                symbol == data.symbol
                exchange ==
                    IF variant = "binary" THEN get_exchange_for_symbol(symbol)
                    ELSE IF data.exchange = Absent THEN CME
                    ELSE data.exchange
                new == IF variant = "binary" THEN ~InList(symbol, symbols)
                       ELSE full_symbol(symbol, exchange)
                                \notin subscribed_symbols
                send == new /\ SendOk
            IN /\ queue' = Tail(queue)
               /\ symbols' = IF variant = "binary" /\ new
                             THEN Append(symbols, symbol) ELSE symbols
               /\ delivered' = Append(delivered,
                      [req |-> data, up |-> SendOk, sent |-> send])
               /\ IF send
                  THEN /\ inWrite' = inWrite \cup {"poll"}
                       /\ pending' = Frame(symbol, exchange)
                       /\ wire' = Append(wire,
                                         Half(Frame(symbol, exchange), 1))
                       /\ pc' = "send"
                  ELSE /\ pc' = "sleep"
                       /\ UNCHANGED <<wire, inWrite, pending>>
    /\ UNCHANGED <<readVars, threadVars, new_symbols>>
    /\ UNCHANGED <<variant, retry_count, attempts, succeededAt, idx,
                   connected, sockUp, listening, listenStarted,
                   subscribed_symbols, pushes, exit>>

\* send_message returns True: the rest of the frame is out;
\* RTraderProDataCollector then adds the key to subscribed_symbols.
send_message_done ==
    /\ pc = "send"
    /\ wire' = Append(wire, Half(pending, 2))
    /\ inWrite' = inWrite \ {"poll"}
    /\ pending' = <<>>
    /\ subscribed_symbols' =
          IF variant = "text"
          THEN subscribed_symbols
                  \cup {full_symbol(pending.symbol, pending.exchange)}
          ELSE subscribed_symbols
    /\ pc' = "sleep"
    /\ UNCHANGED <<readVars, threadVars, new_symbols>>
    /\ UNCHANGED <<variant, retry_count, attempts, succeededAt, idx,
                   connected, sockUp, listening, listenStarted, symbols,
                   queue, delivered, pushes, exit>>

\* A read loop that answers the terminal on the same socket: a second
\* writer, with no lock.
reader_ack ==
    /\ listening /\ connected
    /\ handled # <<>>
    /\ "reader" \notin inWrite
    /\ Len(wire) < 2 * (MaxPush + 2)
    /\ inWrite' = inWrite \cup {"reader"}
    /\ wire' = Append(wire, Half(Frame(ESU5, CME), 1))
    /\ UNCHANGED <<readVars, pending, threadVars, new_symbols>>
    /\ UNCHANGED <<variant, pc, retry_count, attempts, succeededAt, idx,
                   connected, sockUp, listening, listenStarted, symbols,
                   subscribed_symbols, queue, delivered, pushes, exit>>

LoopNextSharedWriter ==
    \/ check_new_subscriptions_pop
    \/ send_message_done
    \/ poll_sleep
    \/ Push
    \/ listen
    \/ process_messages
    \/ reader_ack

LoopNext ==
    \/ check_new_subscriptions_pop
    \/ send_message_done
    \/ poll_sleep
    \/ Push
    \/ listen
    \/ process_messages

LoopSpec == LoopInit /\ [][LoopNext]_vars

\* The main thread (text) and the subscription_checker task (binary) are
\* always scheduled again; the read loop is not obliged to receive anything.
FairLoopSpec ==
    /\ LoopSpec
    /\ WF_vars(check_new_subscriptions_pop)
    /\ WF_vars(send_message_done)
    /\ WF_vars(poll_sleep)

\* ------------------------------------------------------------ threads
\* The collectors from connect() to the end of run(), with the listener
\* thread of the text client taken one statement at a time: it runs beside
\* the main thread from the moment connect() starts it, and nothing joins
\* it when run() ends.

\* The key _process_message looks up for a message type ("": none).
CallbackFor(type) ==
    CASE type \in {"TICK", "TRADE"} -> "tick_callback"
      [] type \in {"QUOTE", "BBO"} -> "quote_callback"
      [] type \in {"DEPTH", "LEVEL2"} -> "level2_callback"
      [] OTHER -> ""

\* RTraderProPlugin._process_message with the callbacks registered so far:
\* "if 'tick_callback' in self.callbacks" has no else branch.
process_message_cb(message, tick, l2, cbs) ==
    IF CallbackFor(message.type) # "" /\ CallbackFor(message.type) \notin cbs
    THEN Result("unregistered", tick, l2, <<>>)
    ELSE process_message(message, tick, l2)

\* What the terminal sends to a collector from connect() on.
ThreadChunks ==
    { <<>>,
      <<Line("trade")>>,
      <<Line("trade") \o Line("quote")>>,
      <<Line("depth"), Line("status")>> }
\* The LAST_TRADE frame of ESU5 at 4500.25, size 3, with the length field
\* send_message would write (28 payload bytes + 2), and the same 28 payload
\* bytes behind a length field of 26.
LastTrade == EncodeFrame(102, TradeESU5)
LastTrade26 == pack_I(26) \o pack_H(102) \o TradeESU5
ThreadStreams ==
    { <<>>,
      LastTrade,
      LastTrade \o EncodeFrame(103, QuoteGCQ5),
      LastTrade26 }

\* The requests waiting in the control queue when the collector starts.
ThreadQueues ==
    { <<>>,
      <<[symbol |-> GCQ5, exchange |-> COMEX]>>,
      <<[symbol |-> GCQ5, exchange |-> COMEX],
        [symbol |-> NQU5, exchange |-> Absent]>> }

\* run() has connected the database and Redis.
ThreadInit ==
    /\ variant \in Variants
    /\ symbols = <<ESU5>>
    /\ pc = "connect"
    /\ retry_count = 0
    /\ attempts = 0
    /\ succeededAt = 0
    /\ idx = 1
    /\ connected = FALSE
    /\ sockUp = FALSE
    /\ listening = FALSE
    /\ listenStarted = FALSE
    /\ subscribed_symbols = {}
    /\ queue \in ThreadQueues
    /\ wire = <<>>
    /\ delivered = <<>>
    /\ pushes = Len(queue)
    /\ exit = "none"
    /\ IF variant = "text"
       THEN chunks \in ThreadChunks /\ stream = <<>>
       ELSE stream \in ThreadStreams /\ chunks = <<>>
    /\ sent = IF variant = "text" THEN Concat(chunks) ELSE stream
    /\ rxEnd \in {"open", "eof"}
    /\ sink = "ok"
    /\ tick_data = <<>>
    /\ level2_data = <<>>
    /\ handled = <<>>
    /\ killedBy = "none"
    /\ inWrite = {}
    /\ pending = <<>>
    /\ remaining = <<>>
    /\ callbacks = {}
    /\ timeouts = 0
    /\ new_symbols = <<>>

\* RTraderProPlugin.connect, called by connect_rtrader_pro: on success the
\* listener thread runs before connect() returns; on failure
\* connect_rtrader_pro raises.
plugin_connect ==
    /\ variant = "text"
    /\ pc = "connect"
    /\ attempts' = attempts + 1
    /\ \E ok \in BOOLEAN :
        IF ok
        THEN /\ connected' = TRUE
             /\ sockUp' = TRUE
             /\ listening' = TRUE
             /\ listenStarted' = TRUE
             /\ succeededAt' = attempts + 1
             /\ pc' = "callbacks"
             /\ exit' = exit
        ELSE /\ Cleanup("raised")
             /\ UNCHANGED <<listenStarted, succeededAt>>
    /\ UNCHANGED <<readVars, writeVars, threadVars, new_symbols>>
    /\ UNCHANGED <<variant, retry_count, idx, symbols, subscribed_symbols,
                   queue, wire, delivered, pushes>>

\* connect_rtrader_pro, one of its three set_callback calls, in its order.
set_callback ==
    /\ variant = "text"
    /\ pc = "callbacks"
    /\ LET key == IF "tick_callback" \notin callbacks THEN "tick_callback"
                  ELSE IF "quote_callback" \notin callbacks
                  THEN "quote_callback"
                  ELSE "level2_callback"
       IN /\ callbacks' = callbacks \cup {key}
          /\ pc' = IF callbacks \cup {key} = AllCallbacks THEN "subscribe"
                   ELSE pc
    /\ UNCHANGED <<readVars, writeVars, remaining, timeouts, new_symbols>>
    /\ UNCHANGED <<variant, retry_count, attempts, succeededAt, idx,
                   connected, sockUp, listening, listenStarted, symbols,
                   subscribed_symbols, queue, wire, delivered, pushes, exit>>

\* _listen: "data = self.socket.recv(4096)" returns, and the lines of data
\* are split off; b'' or an exception of recv or decode ends the listener.
listen_recv ==
    /\ variant = "text"
    /\ listening /\ connected /\ pc # "done"
    /\ remaining = <<>>
    /\ IF chunks # <<>>
       THEN LET data == Head(chunks)
            IN /\ chunks' = Tail(chunks)
               /\ sockUp' = sockUp
               /\ IF TextDecodeFails(data)
                  THEN /\ killedBy' = "decode"
                       /\ listening' = FALSE
                       /\ connected' = FALSE
                       /\ remaining' = remaining
                  ELSE /\ remaining' = Split(Strip(data))
                       /\ UNCHANGED <<killedBy, listening, connected>>
       ELSE /\ rxEnd \in {"eof", "error"}
            /\ killedBy' = rxEnd
            /\ listening' = FALSE
            /\ connected' = FALSE
            /\ sockUp' = FALSE
            /\ UNCHANGED <<chunks, remaining>>
    /\ UNCHANGED <<variant, pc, retry_count, attempts, succeededAt, idx,
                   listenStarted, symbols, subscribed_symbols, queue, wire,
                   delivered, pushes, exit, stream, sent, rxEnd, sink,
                   tick_data, level2_data, handled>>
    /\ UNCHANGED <<writeVars, callbacks, timeouts, new_symbols>>

\* _listen: one turn of "for msg_str in messages"; the loop tests neither
\* running nor connected, so it goes on after disconnect().
listen_line ==
    /\ variant = "text"
    /\ remaining # <<>>
    /\ LET msg_str == Head(remaining)
           parsed == json_loads(msg_str)
           r == process_message_cb(Doc(parsed.name), tick_data, level2_data,
                                   callbacks)
       IN IF msg_str = <<>>
          THEN /\ remaining' = Tail(remaining)
               /\ UNCHANGED <<tick_data, level2_data, handled, killedBy,
                              listening, connected>>
          ELSE IF ~parsed.ok
          THEN /\ remaining' = Tail(remaining)
               /\ handled' = Append(handled,
                     [msg |-> "", outcome |-> "badjson", rows |-> <<>>])
               /\ UNCHANGED <<tick_data, level2_data, killedBy, listening,
                              connected>>
          ELSE /\ tick_data' = r.tick
               /\ level2_data' = r.l2
               /\ handled' = Append(handled,
                     [msg |-> parsed.name, outcome |-> r.outcome,
                      rows |-> r.rows])
               /\ IF r.outcome = "raised"
                  THEN /\ remaining' = <<>>
                       /\ killedBy' = "persist"
                       /\ listening' = FALSE
                       /\ connected' = FALSE
                  ELSE /\ remaining' = Tail(remaining)
                       /\ UNCHANGED <<killedBy, listening, connected>>
    /\ UNCHANGED <<variant, pc, retry_count, attempts, succeededAt, idx,
                   sockUp, listenStarted, symbols, subscribed_symbols, queue,
                   wire, delivered, pushes, exit, stream, chunks, sent,
                   rxEnd, sink>>
    /\ UNCHANGED <<writeVars, callbacks, timeouts, new_symbols>>

\* A listener for which a timeout is an error like any other: "break".
listen_timeout_breaks ==
    /\ variant = "text"
    /\ listening /\ connected /\ pc # "done"
    /\ remaining = <<>>
    /\ timeouts < MaxTimeouts
    /\ timeouts' = timeouts + 1
    /\ listening' = FALSE
    /\ connected' = FALSE
    /\ UNCHANGED <<readVars, writeVars, remaining, callbacks, new_symbols>>
    /\ UNCHANGED <<variant, pc, retry_count, attempts, succeededAt, idx,
                   sockUp, listenStarted, symbols, subscribed_symbols, queue,
                   wire, delivered, pushes, exit>>

\* _listen: recv raises socket.timeout (settimeout(10), no data in time):
\* "continue".
listen_timeout ==
    /\ variant = "text"
    /\ listening /\ connected /\ pc # "done"
    /\ remaining = <<>>
    /\ timeouts < MaxTimeouts
    /\ timeouts' = timeouts + 1
    /\ UNCHANGED <<runVars, readVars, writeVars, remaining, callbacks,
                   new_symbols>>

\* The end of the finally block of run(): db_conn.close().
close_services ==
    /\ pc = "done"
    /\ exit # "returned"
    /\ sink # "lost"
    /\ sink' = "lost"
    /\ UNCHANGED <<stream, chunks, sent, rxEnd, tick_data, level2_data,
                   handled, killedBy>>
    /\ UNCHANGED <<runVars, writeVars, threadVars, new_symbols>>

ThreadNext ==
    \/ plugin_connect
    \/ set_callback
    \/ run_connect
    \/ subscribe_symbols
    \/ run_subscribe
    \/ run_start_loop
    \/ rtrader_check_new_subscriptions
    \/ binary_check_new_subscriptions
    \/ poll_sleep
    \/ listen_recv
    \/ listen_line
    \/ listen_timeout
    \/ process_messages
    \/ KeyboardInterrupt
    \/ close_services

ThreadSpec == ThreadInit /\ [][ThreadNext]_vars

\* ------------------------------------------------------------ framing
\* What send_message writes, read back by receive_message over a
\* connection that delivers the bytes in pieces.
MsgTypes == {0, 102, 256, 65535}
Payloads == {<<>>, <<7>>, <<1, 2>>}
Written == [msg_type : MsgTypes, data : Payloads]

\* One frame, or two frames back to back.
WrittenSeqs ==
    {<<f>> : f \in Written} \cup {<<f, g>> : f \in Written, g \in Written}

RECURSIVE EncodeAll(_)
EncodeAll(frames) ==
    IF frames = <<>> THEN <<>>
    ELSE EncodeFrame(Head(frames).msg_type, Head(frames).data)
            \o EncodeAll(Tail(frames))

\* The ways the bytes arrive: all at once, cut at up to MaxCuts places
\* (inside a header, inside a payload, between two frames), or one byte at
\* a time.
Arrivals(bytes) ==
    {<<bytes>>} \cup
    {[i \in 1..Len(bytes) |-> <<bytes[i]>>]} \cup
    {CutUp(bytes, cuts, 1) :
        cuts \in {c \in SUBSET (1..(Len(bytes) - 1)) :
                    Cardinality(c) >= 1 /\ Cardinality(c) <= MaxCuts}}

FrameInit ==
    /\ variant = "binary"
    /\ symbols = <<ESU5>>
    /\ pc = "poll"
    /\ retry_count = 0
    /\ attempts = 1
    /\ succeededAt = 1
    /\ idx = 2
    /\ connected = TRUE
    /\ sockUp = TRUE
    /\ listening = TRUE
    /\ listenStarted = TRUE
    /\ subscribed_symbols = {}
    /\ queue = <<>>
    /\ wire \in WrittenSeqs
    /\ delivered = <<>>
    /\ pushes = 0
    /\ exit = "none"
    /\ sent = EncodeAll(wire)
    /\ chunks \in Arrivals(sent)
    /\ stream = <<>>
    /\ rxEnd = "open"
    /\ sink = "ok"
    /\ tick_data = <<>>
    /\ level2_data = <<>>
    /\ handled = <<>>
    /\ killedBy = "none"
    /\ inWrite = {}
    /\ pending = <<>>
    /\ remaining = <<>>
    /\ callbacks = {}
    /\ timeouts = 0
    /\ new_symbols = <<>>

\* One call of receive_message that returns a frame: stream is what stays
\* in the reader's buffer, chunks what has not arrived yet.
receive_frame ==
    /\ variant = "binary"
    /\ listening /\ connected
    /\ LET got == receive_message_fed(stream, chunks)
       IN /\ got.status = "frame"
          /\ stream' = got.buf
          /\ chunks' = got.pieces
          /\ handled' = Append(handled,
                [msg |-> got.msg_type, data |-> got.data,
                 size |-> Len(got.data)])
    /\ UNCHANGED <<sent, rxEnd, sink, tick_data, level2_data, killedBy>>
    /\ UNCHANGED <<runVars, writeVars, threadVars, new_symbols>>

FrameNext == receive_frame

FrameSpec == FrameInit /\ [][FrameNext]_vars

\* ------------------------------------------------------------ resolver
\* The symbols handed to the resolver: known roots, a root behind another
\* letter, unknown roots, lower case, the empty string, digits only, digits
\* in front and in the middle.
MGCQ5 == <<"M", "G", "C", "Q", "5">>
ResolverSymbols ==
    { ESU5, GCQ5, MGCQ5, NQU5,
      <<"Y", "M", "Z", "2", "5">>, <<"6", "E", "U", "5">>,
      <<"X", "Y", "Z", "9">>, <<"g", "c", "q", "5">>,
      <<>>, <<"2", "0", "2", "4">>,
      <<"5", "G", "C">>, <<"G", "C", "5", "Q">>, <<"C">> }

\* RithmicCollector.run about to subscribe its initial symbols (SYMBOLS of
\* the environment, any strings).
ResolveInit ==
    /\ variant = "binary"
    /\ symbols \in SeqsUpTo(ResolverSymbols, 2)
    /\ pc = "subscribe"
    /\ retry_count = 0
    /\ attempts = 1
    /\ succeededAt = 1
    /\ idx = 1
    /\ connected = TRUE
    /\ sockUp = TRUE
    /\ listening = FALSE
    /\ listenStarted = FALSE
    /\ subscribed_symbols = {}
    /\ queue = <<>>
    /\ wire = <<>>
    /\ delivered = <<>>
    /\ pushes = 0
    /\ exit = "none"
    /\ stream = <<>>
    /\ chunks = <<>>
    /\ sent = <<>>
    /\ rxEnd = "open"
    /\ sink = "ok"
    /\ tick_data = <<>>
    /\ level2_data = <<>>
    /\ handled = <<>>
    /\ killedBy = "none"
    /\ inWrite = {}
    /\ pending = <<>>
    /\ remaining = <<>>
    /\ callbacks = {}
    /\ timeouts = 0
    /\ new_symbols = <<>>

ResolveNext == run_subscribe \/ run_start_loop

ResolveSpec == ResolveInit /\ [][ResolveNext]_vars

\* ------------------------------------------------------------ producers
\* The programs that ask a running collector for a symbol.
Producers == {"api", "add_symbols", "db_manager", "control"}

\* The Redis list each of them pushes to.
ListOf(by) ==
    IF by = "api" THEN "new_symbols" ELSE "symbol_subscriptions"

\* One producer pushes one request (rpush); n numbers the requests in the
\* order they are pushed.
producer_push ==
    /\ pushes < MaxPush
    /\ pc # "done"
    /\ \E by \in Producers, symbol \in {GCQ5, NQU5} :
          LET r == [symbol |-> symbol, exchange |-> CME, by |-> by,
                    n |-> pushes + 1]
          IN IF ListOf(by) = "symbol_subscriptions"
             THEN queue' = Append(queue, r) /\ new_symbols' = new_symbols
             ELSE new_symbols' = Append(new_symbols, r) /\ queue' = queue
    /\ pushes' = pushes + 1
    /\ UNCHANGED <<readVars, writeVars, threadVars>>
    /\ UNCHANGED <<variant, pc, retry_count, attempts, succeededAt, idx,
                   connected, sockUp, listening, listenStarted, symbols,
                   subscribed_symbols, wire, delivered, exit>>

ProducerNext ==
    \/ producer_push
    \/ check_new_subscriptions_pop
    \/ send_message_done
    \/ poll_sleep
    \/ listen
    \/ process_messages

ProducerSpec == LoopInit /\ [][ProducerNext]_vars

\* The poll of a running collector is always scheduled again.
FairProducerSpec ==
    /\ ProducerSpec
    /\ WF_vars(check_new_subscriptions_pop)
    /\ WF_vars(send_message_done)
    /\ WF_vars(poll_sleep)

\* The scheduler runs every enabled step of the program itself; the
\* producers, the terminal and the operator (Push, PeerClose,
\* KeyboardInterrupt) and the failures of the read loop are not obliged to act.
FairSpec ==
    /\ Spec
    /\ WF_vars(ConnectServices)
    /\ WF_vars(connect_rtrader_pro)
    /\ WF_vars(run_connect)
    /\ WF_vars(subscribe_symbols)
    /\ WF_vars(run_subscribe)
    /\ WF_vars(run_start_loop)
    /\ WF_vars(rtrader_check_new_subscriptions)
    /\ WF_vars(binary_check_new_subscriptions)
    /\ WF_vars(poll_sleep)

\* ------------------------------------------------------------ claims
\* Number of subscribe frames on the wire for the pair (symbol, exchange).
WireCount(symbol, exchange) ==
    Cardinality({i \in 1..Len(wire) : wire[i] = Frame(symbol, exchange)})

\* Number of deliveries of request r by the control queue so far.
Deliveries(r) ==
    Cardinality({i \in 1..Len(delivered) : delivered[i].req = r})

\* Number of deliveries of request r that wrote a subscribe frame.
DeliveriesSent(r) ==
    Cardinality({i \in 1..Len(delivered) :
                    delivered[i].req = r /\ delivered[i].sent})

\* The connection has been up since connect() (it is never re-established).
ConnectionUp == connected /\ sockUp

\* C1: for every (symbol, exchange) pair, when the control queue has
\* delivered the same request two or more times while the connection stays
\* up, exactly one subscribe frame for that pair is on the wire, and the
\* second and later deliveries sent nothing.
C1_IdempotentSubscribe ==
    \A r \in Requests :
        (r.exchange # Absent /\ ConnectionUp /\ Deliveries(r) >= 2)
        => /\ WireCount(r.symbol, r.exchange) = 1
           /\ DeliveriesSent(r) <= 1

\* C2: the (symbol, exchange) pair is the unit of dedup across the initial
\* symbol list and the control queue: no pair has more than one subscribe
\* frame on the connection, and two delivered requests with the same symbol
\* and different exchanges are distinct pairs, each sent once.
C2_PairIsUnitOfDedup ==
    /\ \A i \in 1..Len(wire) :
          WireCount(wire[i].symbol, wire[i].exchange) <= 1
    /\ \A r \in Requests :
          (r.exchange # Absent /\ ConnectionUp /\ Deliveries(r) >= 1)
          => WireCount(r.symbol, r.exchange) = 1

\* C3: at most 5 connect attempts are made; when all have failed the
\* collector ends with a failure raised to its caller (not a normal return),
\* no subscribe frame was sent, the read loop and the reconciliation poll
\* were never started; after an attempt succeeds no further one is made.
C3_BoundedInitialConnect ==
    /\ attempts <= MaxAttempts
    /\ (succeededAt # 0 => attempts = succeededAt)
    /\ (pc = "done" /\ attempts > 0 /\ succeededAt = 0)
       => /\ exit = "raised"
          /\ wire = <<>>
          /\ ~listenStarted
          /\ delivered = <<>>

\* The read loop has come to the end of what the connection delivers: a
\* clean EOF or a read error (after whole frames, or inside one).
ReadEnded == killedBy \in {"eof", "error"}

\* C4: once connected, a read that ends in clean EOF or in a read error
\* moves the connection to Disconnected (connected = FALSE) and stops the
\* read loop, and nothing more is dispatched from that connection.
C4_ReadEndDisconnects ==
    ReadEnded => /\ ~connected
                 /\ ~listening

\* The text stream cut after every newline: one line per recv.
RECURSIVE OwnReads(_)
OwnReads(text) ==
    IF text = <<>> THEN <<>>
    ELSE LET ends == {k \in 1..Len(text) : text[k] = "\n"} \cup {Len(text)}
             i == CHOOSE k \in ends : \A j \in ends : k <= j
         IN <<SubSeq(text, 1, i)>> \o OwnReads(SubSeq(text, i + 1, Len(text)))

\* What the listener makes of a sequence of recv results: the document
\* name of every message it dispatches, "" for a line json.loads rejects.
RECURSIVE NamesOf(_)
NamesOf(lines) ==
    IF lines = <<>> THEN <<>>
    ELSE IF Head(lines) = <<>> THEN NamesOf(Tail(lines))
    ELSE <<json_loads(Head(lines)).name>> \o NamesOf(Tail(lines))

RECURSIVE DispatchedOf(_)
DispatchedOf(reads) ==
    IF reads = <<>> THEN <<>>
    ELSE NamesOf(Split(Strip(Head(reads)))) \o DispatchedOf(Tail(reads))

\* The names the listener has logged so far.
Logged == [i \in 1..Len(handled) |-> handled[i].msg]

\* C5: in the text variant, whichever way the stream of lines was split
\* into socket reads, once every read has been taken the sequence of
\* messages dispatched is the one obtained with each line in a read of
\* its own; no line is parsed as two fragments.
C5_PartialReadsBuffered ==
    (variant = "text" /\ chunks = <<>>
        /\ killedBy \notin {"persist", "decode"})
    => Logged = DispatchedOf(OwnReads(sent))

\* C6: a request popped while the upstream connection is down is not
\* discarded: a subscribe frame for its pair has been sent.  (The connection
\* is never re-established, so no frame can be sent later.)
C6_NoRequestLostWhileDown ==
    \A i \in 1..Len(delivered) :
        LET r == delivered[i].req
        IN ~delivered[i].up
           => \E j \in 1..Len(wire) :
                 /\ wire[j].symbol = r.symbol
                 /\ r.exchange # Absent => wire[j].exchange = r.exchange

\* The read loop was started and has terminated while run() is still going.
StreamFatal == listenStarted /\ ~listening /\ pc # "done"

\* C7: after the read loop has terminated on a mid-stream EOF or read
\* error, run() eventually returns to its caller.
C7_StreamFatalSurfaced == StreamFatal ~> (pc = "done")

\* C8: a failing insert (a rejected statement, or a lost database
\* connection so that the rollback fails too) never ends the read loop:
\* the record is dropped and no exception leaves the handler.
C8_PersistenceErrorsNonFatal ==
    /\ killedBy # "persist"
    /\ \A i \in 1..Len(handled) : handled[i].outcome # "raised"

\* C9: a frame of a known type whose payload is shorter than its embedded
\* lengths imply never ends the read loop: it is dropped, nothing is
\* stored for it and no exception leaves the parser.
C9_SemanticErrorsNonFatal ==
    /\ killedBy # "parse"
    /\ \A i \in 1..Len(handled) : handled[i].outcome # "parse_raised"

\* The bid/ask fields of the quote behind a log entry: the text documents
\* quote and bbo, the binary BID_OFFER frame.
QuoteOf(h) ==
    IF variant = "binary"
    THEN [bid_price |-> 195000, bid_size |-> 5,
          ask_price |-> 195010, ask_size |-> 7]
    ELSE [bid_price |-> Doc(h.msg).bid_price, bid_size |-> Doc(h.msg).bid_size,
          ask_price |-> Doc(h.msg).ask_price, ask_size |-> Doc(h.msg).ask_size]

\* The log entries of well-formed quotes that met a working database.
QuotesHandled ==
    {i \in 1..Len(handled) :
        /\ IF variant = "binary" THEN handled[i].msg = 103
           ELSE handled[i].msg \in {"quote", "bbo"}
        /\ handled[i].outcome \notin {"dropped", "raised", "parse_raised"}}

\* C10: every well-formed bid/offer quote hands exactly one row to
\* tick_data, carrying the quote's bid/ask price and size, with the
\* trade price and size left null.
C10_QuoteNormalisation ==
    \A i \in QuotesHandled :
        LET h == handled[i]
        IN /\ h.outcome = "stored"
           /\ Len(h.rows) = 1
           /\ h.rows[1].price = Null
           /\ h.rows[1].size = Null
           /\ h.rows[1].bid_price = QuoteOf(h).bid_price
           /\ h.rows[1].bid_size = QuoteOf(h).bid_size
           /\ h.rows[1].ask_price = QuoteOf(h).ask_price
           /\ h.rows[1].ask_size = QuoteOf(h).ask_size

\* The rows a depth update must hand to the sink: the first 10 entries of
\* list at most, in input order, with levels 1, 2, ...
TopTen(list, side) ==
    [i \in 1..Min(Len(list), 10) |->
        [side |-> side, level |-> i, price |-> list[i].price,
         size |-> list[i].size]]

\* Side, level, price and size of the rows a handler call committed.
Ranked(rows) ==
    [i \in 1..Len(rows) |->
        [side |-> rows[i].side, level |-> rows[i].level,
         price |-> rows[i].price, size |-> rows[i].size]]

\* The log entries of depth updates: text DEPTH, binary type 109.
DepthMsgs == IF variant = "text" THEN {"depth"} ELSE {109}

C12_OversizedFrameDropped ==
    variant = "binary"
    => \A i \in 1..Len(handled) : handled[i].size <= MaxFrameSize

\* The tables as the committed records alone produce them: a record that
\* was stored prunes (text depth) and appends its rows, any other record
\* leaves both tables as they were.
RECURSIVE Replay(_, _, _)
Replay(log, tick, l2) ==
    IF log = <<>> THEN [tick |-> tick, l2 |-> l2]
    ELSE LET h == Head(log)
         IN IF h.outcome # "stored" THEN Replay(Tail(log), tick, l2)
            ELSE IF h.msg \notin DepthMsgs
            THEN Replay(Tail(log), tick \o h.rows, l2)
            ELSE IF variant = "text"
            THEN Replay(Tail(log), tick,
                        SelectRows(l2, h.data.symbol, h.data.ts - 60000)
                            \o h.rows)
            ELSE Replay(Tail(log), tick, l2 \o h.rows)

\* C13: each insert is its own transaction, delivered at most once: a
\* record whose insert failed leaves none of its rows and none of its
\* pruning deletes visible, is never retried, and the rows committed by
\* earlier records are unchanged.
C13_InsertIsOneTransaction ==
    /\ tick_data = Replay(handled, <<>>, <<>>).tick
    /\ level2_data = Replay(handled, <<>>, <<>>).l2

\* A depth update failed after an earlier one had committed rows that the
\* failed update would have pruned.
C13_Witness ==
    /\ Len(handled) = 2
    /\ handled[1].msg \in DepthMsgs /\ handled[1].outcome = "stored"
    /\ handled[1].rows # <<>>
    /\ handled[2].msg \in DepthMsgs /\ handled[2].outcome = "dropped"
    /\ handled[2].data.bids # <<>>
    /\ handled[2].data.ts - 60000 > handled[1].data.ts
    /\ level2_data = handled[1].rows

\* The exchange a request must be subscribed on: its own, or the
\* resolver's when it carries none.
ResolvedExchange(r) ==
    IF r.exchange # Absent THEN r.exchange
    ELSE get_exchange_for_symbol(r.symbol)

\* C14: every control-queue request that led to a subscribe frame was
\* sent with the exchange it carries, or, when it carries none, with the
\* exchange the resolver gives for its symbol.
C14_MissingExchangeResolved ==
    \A i \in 1..Len(delivered) :
        delivered[i].sent
        => \E j \in 1..Len(wire) :
              wire[j] = Frame(delivered[i].req.symbol,
                              ResolvedExchange(delivered[i].req))

\* The log entries of frames whose type tag is none of the handled ones:
\* text, a type string other than TICK, TRADE, QUOTE, BBO, DEPTH, LEVEL2,
\* STATUS, ERROR, or no type; binary, a type other than 102, 103, 109.
UnknownType(h) ==
    IF variant = "text" THEN h.msg \in {"unknown", "notype"}
    ELSE h.msg \notin {102, 103, 109}

\* C15: a frame of an unknown type raises no error and inserts nothing,
\* and it is not what ended the read loop.
C15_UnknownTypeSurvives ==
    \A i \in 1..Len(handled) :
        UnknownType(handled[i])
        => /\ handled[i].outcome = "ignored"
           /\ handled[i].rows = <<>>
           /\ (i = Len(handled) => killedBy \notin {"persist", "parse"})

\* A frame of an unknown type was taken off the connection, both tables
\* were left empty, and the frame after it was stored.
C15_Witness ==
    /\ Len(handled) = 2
    /\ UnknownType(handled[1])
    /\ handled[2].outcome = "stored"
    /\ Len(tick_data) + Len(level2_data) = Len(handled[2].rows)
    /\ listening

\* The log entries of STATUS and ERROR control messages.
ControlMessage(h) == h.msg \in {"status", "error"}

\* C16: a STATUS or ERROR message is only logged: it inserts nothing, and
\* a stream of such messages alone leaves both tables empty, the
\* connection up and the read loop running until the stream itself ends.
C16_ControlMessagesOnlyLogged ==
    variant = "text"
    => /\ \A i \in 1..Len(handled) :
             ControlMessage(handled[i])
             => /\ handled[i].outcome = "logged"
                /\ handled[i].rows = <<>>
       /\ (\A i \in 1..Len(handled) : ControlMessage(handled[i]))
          => /\ tick_data = <<>>
             /\ level2_data = <<>>
             /\ killedBy # "persist"
             /\ (killedBy = "none" => connected /\ listening)

\* A STATUS and then an ERROR message were received and the listener is
\* still reading.
C16_Witness ==
    /\ variant = "text"
    /\ Len(handled) = 2
    /\ handled[1].msg = "status"
    /\ handled[2].msg = "error"
    /\ chunks = <<>>
    /\ connected /\ listening

\* The stream holds a line that is not JSON.
MalformedLineSent ==
    \E i \in 1..Len(sent) : sent[i] \in {"junk"} \cup NotUtf8

\* C17: a line that fails JSON parsing is skipped: it never ends the
\* listener, and once every read has been taken the well-formed lines
\* around it have all been dispatched, in order.
C17_MalformedLineRecoverable ==
    (variant = "text" /\ MalformedLineSent)
    => /\ killedBy # "decode"
       /\ (chunks = <<>> /\ killedBy # "persist")
          => Logged = DispatchedOf(OwnReads(sent))

\* a is b with some elements left out, the others in the same order.
RECURSIVE IsSubseq(_, _)
IsSubseq(a, b) ==
    IF a = <<>> THEN TRUE
    ELSE IF b = <<>> THEN FALSE
    ELSE IF Head(a) = Head(b) THEN IsSubseq(Tail(a), Tail(b))
    ELSE IsSubseq(a, Tail(b))

\* The types of the whole frames of a byte stream, in arrival order.
RECURSIVE FrameTypes(_)
FrameTypes(buf) ==
    LET got == receive_message(buf)
    IN IF got.status = "incomplete" THEN <<>>
       ELSE <<got.msg_type>> \o FrameTypes(got.rest)

\* The messages that reached a handler, in the order they did.
RECURSIVE Dispatched(_)
Dispatched(log) ==
    IF log = <<>> THEN <<>>
    ELSE IF Head(log).outcome = "badjson" THEN Dispatched(Tail(log))
    ELSE <<Head(log).msg>> \o Dispatched(Tail(log))

\* The rows the handler calls committed, call after call: tick rows
\* (depth = FALSE) or depth rows (depth = TRUE).
RECURSIVE RowsInOrder(_, _)
RowsInOrder(log, depth) ==
    IF log = <<>> THEN <<>>
    ELSE (IF (Head(log).msg \in DepthMsgs) = depth THEN Head(log).rows
          ELSE <<>>) \o RowsInOrder(Tail(log), depth)

\* C18: within one connection the frames are dispatched in arrival order
\* and persisted in that order, one after the other: the rows of frame k
\* are all in the table before any row of frame k+1.
C18_ArrivalOrder ==
    /\ IF variant = "binary"
       THEN Logged = SubSeq(FrameTypes(sent), 1, Len(handled))
       ELSE IsSubseq(Dispatched(handled), DispatchedOf(OwnReads(sent)))
    /\ tick_data = RowsInOrder(handled, FALSE)
    /\ level2_data = RowsInOrder(handled, TRUE)

\* Two frames with different rows were stored one after the other.
C18_Witness ==
    /\ Len(handled) = 2
    /\ handled[1].outcome = "stored" /\ handled[2].outcome = "stored"
    /\ handled[1].msg # handled[2].msg
    /\ tick_data = handled[1].rows \o handled[2].rows
    /\ Len(tick_data) = 2

\* Every frame on the wire is whole: a first half is followed at once by
\* its second half, unless it is the one being written.
WholeFrames ==
    \A i \in 1..Len(wire) :
        /\ wire[i].half = 1
           => IF i = Len(wire) THEN inWrite # {}
              ELSE wire[i + 1] = [wire[i] EXCEPT !.half = 2]
        /\ wire[i].half = 2
           => i > 1 /\ wire[i - 1] = [wire[i] EXCEPT !.half = 1]

\* C19: whichever way the read loop and the reconciliation poll
\* interleave, at most one activity is inside a socket write (and the
\* update of the subscription set that goes with it), and the bytes of
\* two outgoing frames are never interleaved on the wire.
C19_WritePathExclusive ==
    /\ Cardinality(inWrite) <= 1
    /\ WholeFrames

\* The read loop took a frame off the connection while the poll was in
\* the middle of writing a subscribe frame.
C19_Witness ==
    /\ pc = "send"
    /\ inWrite = {"poll"}
    /\ wire[Len(wire)].half = 1
    /\ handled # <<>>
    /\ chunks = <<>> /\ stream = <<>>

\* The n-th request has been pushed to the control queue.
Requested(n) == pushes >= n

\* The n-th request has been popped and, when it names a symbol that was
\* not subscribed, both halves of its subscribe frame are on the wire.
Served(n) ==
    /\ Len(delivered) >= n
    /\ ~(pc = "send" /\ Len(delivered) = n)
    /\ delivered[n].sent
       => \E i \in 1..Len(wire) :
             /\ wire[i].symbol = delivered[n].req.symbol
             /\ wire[i].half = 2
             /\ i > 2

\* C20: the reconciliation poll runs on its own cadence whatever the read
\* loop does: every request pushed to the control queue is eventually
\* popped and its subscribe frame sent, also when the read loop waits for
\* ever on a connection that delivers nothing.
C20_PollProgress ==
    \A n \in 1..MaxPush : Requested(n) ~> Served(n)

\* A request was popped and its frame sent whole on a connection that
\* never delivered a byte to the read loop.
C20_Witness ==
    /\ sent = <<>>
    /\ handled = <<>>
    /\ listening /\ connected
    /\ Len(delivered) >= 1
    /\ delivered[1].sent
    /\ Served(1)

\* C21: after the shutdown signal the read loop dispatches no further
\* frame (it is interrupted, it does not finish what it has received),
\* and once run() has ended no subscribe frame is sent and no request is
\* popped from the control queue.
C21_Cancellation ==
    [][exit = "interrupted"
          => /\ handled' = handled
             /\ tick_data' = tick_data
             /\ level2_data' = level2_data
             /\ wire' = wire
             /\ delivered' = delivered
             /\ queue' = queue]_vars

\* The frames of buf as receive_message returns them when every byte is
\* there at once, and the bytes left after the first k of them.
RECURSIVE DecodeAll(_)
DecodeAll(buf) ==
    LET got == receive_message(buf)
    IN IF got.status = "incomplete" THEN <<>>
       ELSE <<[msg |-> got.msg_type, data |-> got.data,
               size |-> Len(got.data)]>> \o DecodeAll(got.rest)

RECURSIVE RestAfter(_, _)
RestAfter(buf, k) ==
    IF k = 0 THEN buf ELSE RestAfter(receive_message(buf).rest, k - 1)

RECURSIVE Consumed(_)
Consumed(log) ==
    IF log = <<>> THEN 0 ELSE (Head(log).size + 2) + 4 + Consumed(Tail(log))

\* C22: however the bytes of valid frames are delivered (down to one byte
\* at a time), the receive step returns the same (type, payload) as when
\* all bytes are there at once, consumes exactly length + 4 bytes per
\* frame, and leaves every byte of the next frame unconsumed.
C22_PartialReadSafety ==
    LET all == DecodeAll(sent)
        left == stream \o Concat(chunks)
    IN /\ Len(handled) <= Len(all)
       /\ \A i \in 1..Len(handled) : handled[i] = all[i]
       /\ left = RestAfter(sent, Len(handled))
       /\ Len(sent) - Len(left) = Consumed(handled)

\* A frame with a payload has been received from a byte-at-a-time
\* delivery, and the next frame is still to arrive, byte by byte.
C22_Witness ==
    /\ Len(handled) = 1
    /\ handled[1].size > 0
    /\ stream = <<>>
    /\ Len(chunks) >= 6
    /\ \A i \in 1..Len(chunks) : Len(chunks[i]) = 1

\* Where the i-th written frame starts in the bytes written (0-based).
RECURSIVE FrameOffset(_, _)
FrameOffset(frames, i) ==
    IF i = 1 THEN 0
    ELSE 6 + Len(Head(frames).data) + FrameOffset(Tail(frames), i - 1)

\* C23: what the send step writes for (type, payload), fed to the receive
\* step, yields the same (type, payload), for the empty payload and the
\* extreme types too; the length field written is payload length + 2.
C23_FramingRoundTrip ==
    /\ Len(handled) <= Len(wire)
    /\ \A i \in 1..Len(handled) :
          /\ handled[i].msg = wire[i].msg_type
          /\ handled[i].data = wire[i].data
    /\ \A i \in 1..Len(wire) :
          LET at == FrameOffset(wire, i)
          IN unpack_I(Slice(sent, at, at + 4)) = Len(wire[i].data) + 2
    /\ (stream = <<>> /\ chunks = <<>>) => Len(handled) = Len(wire)

\* Two frames came back: one of type 65535 without payload, then one of
\* type 0 with a payload.
C23_Witness ==
    /\ Len(handled) = 2
    /\ handled[1].msg = 65535 /\ handled[1].data = <<>>
    /\ handled[2].msg = 0 /\ handled[2].data = <<1, 2>>
    /\ stream = <<>> /\ chunks = <<>>

\* s without its trailing digits, said without rstrip: the prefix of s
\* that does not end in a digit and is followed by digits only.
IsRoot(base, s) ==
    \E k \in 0..Len(s) :
        /\ base = SubSeq(s, 1, k)
        /\ k > 0 => s[k] \notin Digits
        /\ \A j \in (k + 1)..Len(s) : s[j] \in Digits

\* e is what the table says for the root of s: the exchange of a prefix
\* the root starts with, CME when it starts with none.
TableSays(s, e) ==
    \E k \in 0..Len(s) :
        /\ IsRoot(SubSeq(s, 1, k), s)
        /\ LET base == SubSeq(s, 1, k)
               hits == {i \in 1..Len(SYMBOL_EXCHANGE_MAP) :
                           StartsWith(base, SYMBOL_EXCHANGE_MAP[i][1])}
           IN IF hits = {} THEN e = CME
              ELSE \E i \in hits : e = SYMBOL_EXCHANGE_MAP[i][2]

\* C24: the resolver returns a value for every symbol string (empty,
\* digits only and unknown roots too), the same value each time, namely
\* the exchange of the table prefix the digit-stripped root starts with
\* and CME when there is none: ESU5 -> CME, GCQ5 -> COMEX, MGCQ5 -> COMEX.
C24_ResolverTotalAndPure ==
    /\ Len(wire) = idx - 1
    /\ \A i \in 1..Len(wire) :
          /\ wire[i].symbol = symbols[i]
          /\ wire[i].exchange \in {CME, COMEX, NYMEX, CBOT}
          /\ TableSays(wire[i].symbol, wire[i].exchange)
          /\ wire[i].symbol = ESU5 => wire[i].exchange = CME
          /\ wire[i].symbol = GCQ5 => wire[i].exchange = COMEX
          /\ wire[i].symbol = MGCQ5 => wire[i].exchange = COMEX
          /\ \A j \in 1..Len(wire) :
                wire[j].symbol = wire[i].symbol
                   => wire[j].exchange = wire[i].exchange

\* The resolver was asked about MGCQ5 and about the empty string.
C24_Witness ==
    /\ Len(wire) = 2
    /\ wire[1] = Frame(MGCQ5, COMEX)
    /\ wire[2] = Frame(<<>>, CME)

\* The tick record of the scenario.
ScenarioTick == TickRow(60000, ESU5, CME, 450025, 3, Null, Null, Null, Null)

\* The first frame taken off the connection was stored as the scenario's
\* one tick, and no error of parsing or storing ended the read loop.
StoredAsScenarioTick ==
    /\ handled[1].msg = 102
    /\ handled[1].outcome = "stored"
    /\ handled[1].rows = <<ScenarioTick>>
    /\ tick_data # <<>> /\ tick_data[1] = ScenarioTick
    /\ \A i \in 2..Len(tick_data) : tick_data[i] # ScenarioTick
    /\ killedBy \notin {"parse", "persist"}

\* C25 as stated: the frame with length field 26, type 102 and the payload
\* [4, "ESU5", 4500.25, 3, timestamp] is received, parsed and stored as
\* exactly one tick (ESU5, 4500.25, 3, CME) without any error.
C25_LastTradeLength26 ==
    (variant = "binary" /\ StartsWith(sent, LastTrade26) /\ handled # <<>>)
        => StoredAsScenarioTick

\* C25: the frame with length field 30 (the 28 payload bytes and the type
\* field), type 102 and the payload [4, "ESU5", 4500.25, 3, timestamp] is
\* received, parsed and stored as exactly one tick (ESU5, 4500.25, 3, CME)
\* without any error.
C25_LastTradeScenario ==
    (variant = "binary" /\ StartsWith(sent, LastTrade) /\ handled # <<>>)
        => StoredAsScenarioTick

\* The scenario's frame has been received and its tick is in the table.
C25_Witness ==
    /\ variant = "binary"
    /\ sent = LastTrade
    /\ stream = <<>>
    /\ Len(handled) = 1
    /\ tick_data = <<ScenarioTick>>

\* A subscribe frame for this symbol and exchange is on the wire.
FrameSent(symbol, exchange) ==
    \E i \in 1..Len(wire) : wire[i] = Frame(symbol, exchange)

\* An entry of subscribed_symbols ("SYM" from the environment, "SYM:EXCH")
\* has its frame on the wire.
KeySent(key) ==
    IF HasColon(key)
    THEN FrameSent(SplitColon(key)[1], SplitColon(key)[2])
    ELSE FrameSent(key, CME)

\* C26: the recorded subscription set never claims more than was sent:
\* every entry of subscribed_symbols (text) and every symbol that came
\* from the control queue and is in self.symbols (binary) has a subscribe
\* frame whose send succeeded.
C26_RecordedOnlyIfSent ==
    /\ variant = "text" => \A key \in subscribed_symbols : KeySent(key)
    /\ variant = "binary" =>
          \A n \in 1..Len(delivered) :
              InList(delivered[n].req.symbol, symbols)
                 => \E i \in 1..Len(wire) :
                       wire[i].symbol = delivered[n].req.symbol

\* C27: in the text client no market-data message is dropped because its
\* handler is not registered yet: however the listener thread and the
\* main thread interleave, every TICK/TRADE, QUOTE/BBO and DEPTH/LEVEL2
\* message received after connect() has returned reaches its handler.
C27_NoMessageBeforeCallbacks ==
    variant = "text" =>
        \A i \in 1..Len(handled) : handled[i].outcome # "unregistered"

\* --------------------------------------------------------------- send
\* The client object (RTraderProPlugin / RithmicBinaryProtocol) under any
\* caller: connect, disconnect, the read loop and send_message in any order.
Frames == {Frame(GCQ5, COMEX), Frame(NQU5, CME)}

SendInit ==
    /\ variant \in Variants
    /\ symbols = <<ESU5>>
    /\ pc = "poll"
    /\ retry_count = 0
    /\ attempts = 0
    /\ succeededAt = 0
    /\ idx = 2
    /\ connected = FALSE
    /\ sockUp = FALSE
    /\ listening = FALSE
    /\ listenStarted = FALSE
    /\ subscribed_symbols = {}
    /\ queue = <<>>
    /\ wire = <<>>
    /\ delivered = <<>>
    /\ pushes = 0
    /\ exit = "none"
    /\ chunks = <<>>
    /\ stream = <<>>
    /\ sent = <<>>
    /\ rxEnd \in {"open", "eof", "error"}
    /\ sink = "ok"
    /\ tick_data = <<>>
    /\ level2_data = <<>>
    /\ handled = <<>>
    /\ killedBy = "none"
    /\ inWrite = {}
    /\ pending = <<>>
    /\ remaining = <<>>
    /\ callbacks = Registered
    /\ timeouts = 0
    /\ new_symbols = <<>>

\* connect() of the client: on success the connection is up and its read
\* loop can run; on failure nothing changes.
protocol_connect ==
    /\ pc = "poll"
    /\ ~connected
    /\ attempts < MaxAttempts
    /\ attempts' = attempts + 1
    /\ \E ok \in BOOLEAN :
        IF ok
        THEN /\ connected' = TRUE
             /\ sockUp' = TRUE
             /\ listening' = TRUE
             /\ listenStarted' = TRUE
             /\ succeededAt' = attempts + 1
        ELSE UNCHANGED <<connected, sockUp, listening, listenStarted,
                         succeededAt>>
    /\ UNCHANGED <<readVars, writeVars, threadVars, new_symbols>>
    /\ UNCHANGED <<variant, pc, retry_count, idx, symbols,
                   subscribed_symbols, queue, wire, delivered, pushes, exit>>

\* disconnect() of the client: the flags go down and the socket is closed.
protocol_disconnect ==
    /\ pc = "poll"
    /\ connected \/ sockUp \/ listening
    /\ connected' = FALSE
    /\ sockUp' = FALSE
    /\ listening' = FALSE
    /\ UNCHANGED <<readVars, writeVars, threadVars, new_symbols>>
    /\ UNCHANGED <<variant, pc, retry_count, attempts, succeededAt, idx,
                   listenStarted, symbols, subscribed_symbols, queue, wire,
                   delivered, pushes, exit>>

\* A send that does not test the connected flag.
send_message_unguarded ==
    /\ pc = "poll"
    /\ Len(delivered) < MaxCalls
    /\ \E frame \in Frames :
          /\ wire' = Append(wire, frame)
          /\ delivered' = Append(delivered,
                [req |-> frame, up |-> connected, sent |-> TRUE])
    /\ pc' = "sent"
    /\ UNCHANGED <<readVars, writeVars, threadVars, new_symbols>>
    /\ UNCHANGED <<variant, retry_count, attempts, succeededAt, idx,
                   connected, sockUp, listening, listenStarted, symbols,
                   subscribed_symbols, queue, pushes, exit>>

\* send_message of either client, one call: False when not connected;
\* else the frame is written and True returned, or the write raises (the
\* socket is gone) and False is returned.
send_message ==
    /\ pc = "poll"
    /\ Len(delivered) < MaxCalls
    /\ \E frame \in Frames :
          LET ok == IF ~connected THEN FALSE ELSE sockUp
          IN /\ wire' = IF ok THEN Append(wire, frame) ELSE wire
             /\ delivered' = Append(delivered,
                   [req |-> frame, up |-> connected, sent |-> ok])
    /\ pc' = "sent"
    /\ UNCHANGED <<readVars, writeVars, threadVars, new_symbols>>
    /\ UNCHANGED <<variant, retry_count, attempts, succeededAt, idx,
                   connected, sockUp, listening, listenStarted, symbols,
                   subscribed_symbols, queue, pushes, exit>>

\* The caller after send_message has returned: the text collector adds the
\* key to subscribed_symbols on True; the binary collector ignores the
\* result.
record_subscription ==
    /\ pc = "sent"
    /\ pc' = "poll"
    /\ LET last == delivered[Len(delivered)]
       IN subscribed_symbols' =
             IF variant = "text" /\ last.sent
             THEN subscribed_symbols
                     \cup {full_symbol(last.req.symbol, last.req.exchange)}
             ELSE subscribed_symbols
    /\ UNCHANGED <<readVars, writeVars, threadVars, new_symbols>>
    /\ UNCHANGED <<variant, retry_count, attempts, succeededAt, idx,
                   connected, sockUp, listening, listenStarted, symbols,
                   queue, wire, delivered, pushes, exit>>

SendNext ==
    \/ protocol_connect
    \/ protocol_disconnect
    \/ send_message
    \/ record_subscription
    \/ listen
    \/ process_messages

SendSpec == SendInit /\ [][SendNext]_vars

\* C29: send_message on a client that is not connected (never connected,
\* disconnected, or its read loop has seen EOF) returns False and writes
\* nothing; it changes neither the connection state nor the subscription
\* set.
C29_SendWhenNotConnected ==
    [][(pc = "poll" /\ pc' = "sent" /\ ~connected) =>
          /\ ~delivered'[Len(delivered')].sent
          /\ wire' = wire
          /\ connected' = connected
          /\ sockUp' = sockUp
          /\ listening' = listening
          /\ symbols' = symbols
          /\ subscribed_symbols' = subscribed_symbols]_vars

\* A send was refused after the read loop had seen EOF.
C29_Witness ==
    /\ killedBy = "eof"
    /\ listenStarted
    /\ ~connected
    /\ \E i \in 1..Len(delivered) :
          ~delivered[i].up /\ ~delivered[i].sent

\* The n-th request pushed has been popped by the collector's poll.
Popped(n) == \E i \in 1..Len(delivered) : delivered[i].req.n = n

\* C28: a request pushed by any producer (the REST subscribe endpoint,
\* add_symbols, db_manager, the control centre) is eventually popped by
\* the poll of the running collector, and requests are popped in the
\* order they were pushed, at most one per poll.
C28_EveryProducerReachesCollector ==
    /\ \A n \in 1..MaxPush : (pushes >= n) ~> Popped(n)
    /\ [](\A i \in 1..Len(delivered) : \A j \in 1..Len(delivered) :
             i < j => delivered[i].req.n < delivered[j].req.n)
    /\ [][Len(delivered') <= Len(delivered) + 1]_vars

\* C30: in the read loop of the plugin-socket client a recv timeout is not
\* a disconnect: it leaves the connection flags unchanged and dispatches
\* nothing, and the loop reads again; the loop ends only by an empty read,
\* by an error other than the timeout, or by disconnect().
C30_TimeoutIsNotDisconnect ==
    [][variant = "text" =>
          /\ timeouts' # timeouts =>
                /\ connected' = connected
                /\ listening' = listening
                /\ sockUp' = sockUp
                /\ killedBy' = killedBy
                /\ handled' = handled
                /\ tick_data' = tick_data
                /\ level2_data' = level2_data
                /\ chunks' = chunks
                /\ listening' /\ connected'
          /\ listening /\ ~listening' =>
                \/ killedBy = "none"
                      /\ killedBy' \in {"eof", "error", "decode", "persist"}
                \/ pc' = "done"]_vars

\* A recv has returned data after a recv that timed out.
C30_Witness ==
    /\ variant = "text"
    /\ timeouts >= 1
    /\ remaining # <<>>
    /\ listening /\ connected

====
